---- MODULE Spec2Model ----
(***************************************************************************)
(* Model of the NLP habit tracker's request handlers: entry creation and   *)
(* listing (api/habits), goal creation and update (api/goals), the goal    *)
(* progress updater and the gamification snapshot (api/gamification).      *)
(*                                                                         *)
(* Strings are sequences of one-character strings, so that substring and   *)
(* case-folding are computed.  JSON values are tagged records: [null],     *)
(* [num], [str], [arr].  Time is counted in ticks; every day has TPD       *)
(* instants, the first being 00:00:00.000 and the last 23:59:59.999.       *)
(***************************************************************************)
EXTENDS Integers, Sequences, FiniteSets, TLC

VARIABLES now, tz, entries, goals, pc, req, loc, resp, listResp,
          profiles, badges, gpc, gloc, gresp, fin, fout

storeVars == <<entries, goals>>
postVars == <<pc, req, loc, resp>>
gameVars == <<profiles, badges, gpc, gloc, gresp>>

-----------------------------------------------------------------------------
(* Bounds *)

TPD == 2
MonthLen == 2
MaxDay == 1
MaxEntries == 2
MaxGoals == 1
NumPosts == 2
NumGames == 2
PointSlack == 3
StreakDays == 5
MaxStreakEntries == 4

PostIds == 1..NumPosts
\* the handler frame used when requests are served one at a time
SeqIds == {1}
MaxNow == (MaxDay + 1) * TPD - 1

-----------------------------------------------------------------------------
(* JSON values of a request body and of a stored row *)

JNull == [null |-> TRUE]
JNum(n) == [num |-> n]
JStr(s) == [str |-> s]
JArr(a) == [arr |-> a]
JDate(t) == [date |-> t]

IsNull(v) == "null" \in DOMAIN v
IsNum(v) == "num" \in DOMAIN v
IsStr(v) == "str" \in DOMAIN v
IsArr(v) == "arr" \in DOMAIN v

\* the text of a string value; no text for any other value
StrOf(v) == IF IsStr(v) THEN v.str ELSE <<>>

\* JavaScript truthiness: undefined/null, 0 and "" are falsy; arrays are truthy.
Truthy(v) ==
  CASE IsNull(v) -> FALSE
    [] IsNum(v) -> v.num # 0
    [] IsStr(v) -> v.str # <<>>
    [] OTHER -> TRUE

\* `x || null`
OrNull(v) == IF Truthy(v) THEN v ELSE JNull

DigitVal(c) ==
  CASE c = "0" -> 0 [] c = "1" -> 1 [] c = "2" -> 2 [] c = "3" -> 3
    [] c = "4" -> 4 [] c = "5" -> 5 [] c = "6" -> 6 [] c = "7" -> 7
    [] c = "8" -> 8 [] c = "9" -> 9 [] OTHER -> -1

RECURSIVE ParseDigits(_, _)
ParseDigits(s, acc) ==
  IF s = <<>> \/ DigitVal(Head(s)) < 0 THEN acc
  ELSE ParseDigits(Tail(s), acc * 10 + DigitVal(Head(s)))

\* parseFloat on a number or on a string of leading digits
ParseFloat(v) == IF IsNum(v) THEN v.num ELSE ParseDigits(v.str, 0)

RECURSIVE JoinQuoted(_)
JoinQuoted(a) ==
  IF a = <<>> THEN <<>>
  ELSE <<"\"">> \o Head(a) \o <<"\"">> \o
       (IF Len(a) > 1 THEN <<",">> ELSE <<>>) \o JoinQuoted(Tail(a))

\* JSON.stringify of an array of strings
Stringify(v) == <<"[">> \o JoinQuoted(v.arr) \o <<"]">>

-----------------------------------------------------------------------------
(* Case-insensitive substring match of the store's `contains` filter *)

LowerChar(c) ==
  CASE c = "A" -> "a" [] c = "B" -> "b" [] c = "C" -> "c" [] c = "D" -> "d"
    [] c = "E" -> "e" [] c = "F" -> "f" [] c = "G" -> "g" [] c = "H" -> "h"
    [] c = "I" -> "i" [] c = "J" -> "j" [] c = "K" -> "k" [] c = "L" -> "l"
    [] c = "M" -> "m" [] c = "N" -> "n" [] c = "O" -> "o" [] c = "P" -> "p"
    [] c = "Q" -> "q" [] c = "R" -> "r" [] c = "S" -> "s" [] c = "T" -> "t"
    [] c = "U" -> "u" [] c = "V" -> "v" [] c = "W" -> "w" [] c = "X" -> "x"
    [] c = "Y" -> "y" [] c = "Z" -> "z"
    [] OTHER -> c

ToLower(s) == [i \in 1..Len(s) |-> LowerChar(s[i])]

Contains(hay, needle) ==
  \E i \in 0..(Len(hay) - Len(needle)) : SubSeq(hay, i + 1, i + Len(needle)) = needle

ContainsInsensitive(hay, needle) == Contains(ToLower(hay), ToLower(needle))

-----------------------------------------------------------------------------
(* Local calendar arithmetic of the Date object *)

Local(t) == t + tz
DayOf(t) == Local(t) \div TPD
TodOf(t) == Local(t) % TPD
AtLocal(day, tod) == day * TPD + tod - tz

\* Date.getDay(): 0 = Sunday; day 0 of the model calendar is a Sunday
GetDay(t) == DayOf(t) % 7

FirstOfMonth(t) == (DayOf(t) \div MonthLen) * MonthLen
LastOfMonth(t) == FirstOfMonth(t) + MonthLen - 1

-----------------------------------------------------------------------------
(* Store queries *)

\* db.goal.findMany({ activity: { contains, mode: 'insensitive' }, isActive: true }):
\* the ids of the matching goals, in id order
RECURSIVE findActiveGoals(_, _)
findActiveGoals(activity, i) ==
  IF i > Len(goals) THEN <<>>
  ELSE (IF goals[i].isActive /\ ContainsInsensitive(goals[i].activity, activity)
        THEN <<[id |-> i, period |-> goals[i].period]>> ELSE <<>>)
       \o findActiveGoals(activity, i + 1)

\* db.habitEntry.findMany({ activity: { contains, mode: 'insensitive' },
\*                          date: { gte, lte } })
findEntriesOldestOnly(activity, startDate, endDate) ==
  SelectSeq(SubSeq(entries, 1, 1), LAMBDA e :
    /\ ContainsInsensitive(StrOf(e.activity), activity)
    /\ e.date >= startDate
    /\ e.date <= endDate)

findEntries(activity, startDate, endDate) ==
  SelectSeq(entries, LAMBDA e :
    /\ ContainsInsensitive(StrOf(e.activity), activity)
    /\ e.date >= startDate
    /\ e.date <= endDate)

\* entries.reduce((sum, entry) => sum + (entry.quantity || 0), 0)
RECURSIVE totalQuantity(_)
totalQuantity(es) ==
  IF es = <<>> THEN 0
  ELSE (IF Truthy(Head(es).quantity) THEN Head(es).quantity.num ELSE 0)
       + totalQuantity(Tail(es))

-----------------------------------------------------------------------------
(* updateGoalProgress: the period window anchored at its `now` *)

startOfMonth(t0) == AtLocal(FirstOfMonth(t0), 0)

\* new Date(now); setDate(getDate() - getDay()): the time of day is kept
startOfWeek(t0) == t0 - GetDay(t0) * TPD

sDaily == <<"d", "a", "i", "l", "y">>
sWeekly == <<"w", "e", "e", "k", "l", "y">>
sMonthly == <<"m", "o", "n", "t", "h", "l", "y">>
sYearly == <<"y", "e", "a", "r", "l", "y">>

KnownPeriod(period) == period \in {sDaily, sWeekly, sMonthly}

periodWindow(period, t0) ==
  CASE period = sDaily ->
         [startDate |-> AtLocal(DayOf(t0), 0), endDate |-> AtLocal(DayOf(t0), TPD - 1)]
    [] period = sWeekly ->
         [startDate |-> startOfWeek(t0), endDate |-> startOfWeek(t0) + 6 * TPD]
    [] period = sMonthly ->
         [startDate |-> startOfMonth(t0), endDate |-> AtLocal(LastOfMonth(t0), 0)]

-----------------------------------------------------------------------------
(* POST /api/habits *)

IdleLoc == [hid |-> 0, t0 |-> 0, todo |-> <<>>, total |-> 0, ran |-> FALSE, failed |-> "none"]
NoBody == [rawText |-> JNull]
NoResp == [status |-> 0]

InFlight(p) == pc[p] \notin {"idle", "done"}

\* a validation that tests rawText only
validBodyRawTextOnly(body) == Truthy(body.rawText)

\* if (!rawText || !activity) return 400
validBody(body) == Truthy(body.rawText) /\ Truthy(body.activity)

\* the `data` of db.habitEntry.create
newEntry(body, id) ==
  [id |-> id,
   rawText |-> body.rawText,
   activity |-> body.activity,
   type |-> OrNull(body.type),
   category |-> OrNull(body.category),
   quantity |-> IF Truthy(body.quantity) THEN JNum(ParseFloat(body.quantity)) ELSE JNull,
   unit |-> OrNull(body.unit),
   mood |-> OrNull(body.mood),
   sentiment |-> OrNull(body.sentiment),
   trigger |-> OrNull(body.trigger),
   notes |-> OrNull(body.notes),
   tags |-> IF Truthy(body.tags) THEN JStr(Stringify(body.tags)) ELSE JNull,
   date |-> IF Truthy(body.date) THEN body.date.date ELSE now]

\* if (quantity && activity) await updateGoalProgress(...)
updatesGoals(body) == Truthy(body.quantity) /\ Truthy(body.activity)

\* validation, then db.habitEntry.create; a store failure is answered with 500
POSTCreate(p, body, fail) ==
  /\ pc[p] = "idle"
  /\ req' = [req EXCEPT ![p] = body]
  /\ IF ~validBody(body)
     THEN /\ resp' = [resp EXCEPT ![p] = [status |-> 400]]
          /\ pc' = [pc EXCEPT ![p] = "done"]
          /\ UNCHANGED <<entries, loc>>
     ELSE IF fail
     THEN /\ resp' = [resp EXCEPT ![p] = [status |-> 500]]
          /\ pc' = [pc EXCEPT ![p] = "done"]
          /\ UNCHANGED <<entries, loc>>
     ELSE /\ Len(entries) < MaxEntries
          /\ entries' = Append(entries, newEntry(body, Len(entries) + 1))
          /\ loc' = [loc EXCEPT ![p].hid = Len(entries) + 1]
          /\ pc' = [pc EXCEPT ![p] = IF updatesGoals(body) THEN "update" ELSE "respond"]
          /\ UNCHANGED resp
  /\ UNCHANGED <<now, tz, goals, listResp, gameVars, fin, fout>>

\* switch (goal.period) { ... default: continue }
RECURSIVE skipUnknown(_)
skipUnknown(todo) ==
  IF todo = <<>> \/ KnownPeriod(Head(todo).period) THEN todo
  ELSE skipUnknown(Tail(todo))

\* updateGoalProgress without its try/catch: the error reaches POST's catch
catchUpdateErrorRethrow(p) ==
  /\ pc' = [pc EXCEPT ![p] = "done"]
  /\ resp' = [resp EXCEPT ![p] = [status |-> 500]]

\* catch (error) { console.error(...) } of updateGoalProgress
catchUpdateError(p) ==
  /\ pc' = [pc EXCEPT ![p] = "respond"]
  /\ UNCHANGED resp

\* updateGoalProgress: `now` is taken and the active goals are looked up
UpdFindGoals(p, fail) ==
  /\ pc[p] = "update"
  /\ IF fail
     THEN /\ loc' = [loc EXCEPT ![p].ran = TRUE, ![p].t0 = now, ![p].failed = "lookup"]
          /\ catchUpdateError(p)
     ELSE LET found == skipUnknown(findActiveGoals(req[p].activity.str, 1)) IN
          /\ loc' = [loc EXCEPT ![p].ran = TRUE, ![p].t0 = now, ![p].todo = found]
          /\ pc' = [pc EXCEPT ![p] = IF found = <<>> THEN "respond" ELSE "sum"]
          /\ UNCHANGED resp
  /\ UNCHANGED <<now, tz, entries, goals, req, listResp, gameVars, fin, fout>>

\* the entries of the goal's window are read and summed
UpdSumEntries(p, fail) ==
  /\ pc[p] = "sum"
  /\ IF fail
     THEN /\ loc' = [loc EXCEPT ![p].failed = "sum"]
          /\ catchUpdateError(p)
     ELSE LET w == periodWindow(Head(loc[p].todo).period, loc[p].t0)
              es == findEntries(req[p].activity.str, w.startDate, w.endDate) IN
          /\ loc' = [loc EXCEPT ![p].total = totalQuantity(es)]
          /\ pc' = [pc EXCEPT ![p] = "write"]
          /\ UNCHANGED resp
  /\ UNCHANGED <<now, tz, entries, goals, req, listResp, gameVars, fin, fout>>

\* db.goal.update({ where: { id }, data: { currentValue: totalQuantity } })
UpdWriteGoal(p, fail) ==
  /\ pc[p] = "write"
  /\ IF fail
     THEN /\ loc' = [loc EXCEPT ![p].failed = "write"]
          /\ catchUpdateError(p)
          /\ UNCHANGED goals
     ELSE LET rest == skipUnknown(Tail(loc[p].todo)) IN
          /\ goals' = [goals EXCEPT ![Head(loc[p].todo).id].currentValue = loc[p].total]
          /\ loc' = [loc EXCEPT ![p].todo = rest]
          /\ pc' = [pc EXCEPT ![p] = IF rest = <<>> THEN "respond" ELSE "sum"]
          /\ UNCHANGED resp
  /\ UNCHANGED <<now, tz, entries, req, listResp, gameVars, fin, fout>>

\* return NextResponse.json({ success: true, data: habit })
POSTRespond(p) ==
  /\ pc[p] = "respond"
  /\ resp' = [resp EXCEPT ![p] = [status |-> 200, data |-> entries[loc[p].hid]]]
  /\ pc' = [pc EXCEPT ![p] = "done"]
  /\ UNCHANGED <<now, tz, entries, goals, req, loc, listResp, gameVars, fin, fout>>

\* the response is delivered; the handler's frame is gone
POSTFinish(p) ==
  /\ pc[p] = "done"
  /\ pc' = [pc EXCEPT ![p] = "idle"]
  /\ req' = [req EXCEPT ![p] = NoBody]
  /\ loc' = [loc EXCEPT ![p] = IdleLoc]
  /\ resp' = [resp EXCEPT ![p] = NoResp]
  /\ UNCHANGED <<now, tz, entries, goals, listResp, gameVars, fin, fout>>

-----------------------------------------------------------------------------
(* GET /api/habits *)

NoParams ==
  [activity |-> JNull, category |-> JNull, mood |-> JNull,
   startDate |-> JNull, endDate |-> JNull, limit |-> JNull, offset |-> JNull]

\* the `where` built from the search parameters
matchesWhere(e, params) ==
  /\ Truthy(params.activity) =>
       ContainsInsensitive(StrOf(e.activity), params.activity.str)
  /\ Truthy(params.category) => e.category = params.category
  /\ Truthy(params.mood) => e.mood = params.mood
  /\ Truthy(params.startDate) => e.date >= params.startDate.date
  /\ Truthy(params.endDate) => e.date <= params.endDate.date

\* orderBy: { date: 'desc' }: the orders the store may return, entries of
\* equal date in either order
orderedByDateDesc(es) ==
  { [k \in 1..Len(es) |-> es[f[k]]] :
      f \in { g \in [1..Len(es) -> 1..Len(es)] :
                /\ \A a, b \in 1..Len(es) : a # b => g[a] # g[b]
                /\ \A a, b \in 1..Len(es) : a < b => es[g[a]].date >= es[g[b]].date } }

\* parseInt(searchParams.get(name) || fallback)
intParam(v, fallback) == IF Truthy(v) THEN ParseFloat(v) ELSE fallback

DefaultLimit == 100

\* findMany({ where, orderBy, take: limit, skip: offset }) and count({ where })
GETHabits(params) ==
  LET limit == intParam(params.limit, DefaultLimit)
      offset == intParam(params.offset, 0)
      matching == SelectSeq(entries, LAMBDA e : matchesWhere(e, params))
      total == Len(matching)
      last == IF offset + limit < total THEN offset + limit ELSE total
  IN
  /\ listResp.status = 0
  /\ \E ordered \in orderedByDateDesc(matching) :
       LET habits == SubSeq(ordered, offset + 1, last) IN
       listResp' = [status |-> 200, data |-> habits, total |-> total,
                    limit |-> limit, offset |-> offset,
                    hasMore |-> offset + Len(habits) < total]
  /\ UNCHANGED <<now, tz, entries, goals, pc, req, loc, resp, gameVars, fin, fout>>

\* the listing is delivered
GETFinish ==
  /\ listResp.status # 0
  /\ listResp' = [status |-> 0]
  /\ UNCHANGED <<now, tz, entries, goals, pc, req, loc, resp, gameVars, fin, fout>>

-----------------------------------------------------------------------------
(* /api/goals *)

\* POST: title, activity, targetValue and period are required; currentValue
\* and isActive take the store's defaults
GoalPOST(body) ==
  /\ Truthy(body.title) /\ Truthy(body.activity)
  /\ Truthy(body.targetValue) /\ Truthy(body.period)
  /\ Len(goals) < MaxGoals
  /\ goals' = Append(goals,
       [activity |-> body.activity.str,
        targetValue |-> ParseFloat(body.targetValue),
        currentValue |-> 0,
        period |-> body.period.str,
        isActive |-> TRUE])
  /\ UNCHANGED <<now, tz, entries, pc, req, loc, resp, listResp, gameVars, fin, fout>>

\* PUT with { id, currentValue, isActive }: only the fields that are not
\* undefined are written
GoalPUT(id, data) ==
  /\ id \in 1..Len(goals)
  /\ goals' = [goals EXCEPT
       ![id].currentValue =
          IF IsNull(data.currentValue) THEN @ ELSE ParseFloat(data.currentValue),
       ![id].isActive = IF IsNull(data.isActive) THEN @ ELSE data.isActive.bool]
  /\ goals' # goals
  /\ UNCHANGED <<now, tz, entries, pc, req, loc, resp, listResp, gameVars, fin, fout>>

-----------------------------------------------------------------------------
(* GET /api/gamification: the rule tables *)

POINTS_CONFIG ==
  [positiveHabit |-> 10, negativeBehavior |-> -5, streak |-> 5,
   goalComplete |-> 50, firstOfDay |-> 15]

\* totalPoints += 5 for an entry that is neither positive nor negative
NeutralPoints == 5

\* name and requirement of every catalogue badge, in catalogue order;
\* positiveRatio is written in tenths
BADGES ==
  << [name |-> "First Step", requirement |-> [entries |-> 1]],
     [name |-> "Week Warrior", requirement |-> [streak |-> 7]],
     [name |-> "Two Week Champion", requirement |-> [streak |-> 14]],
     [name |-> "Month Master", requirement |-> [streak |-> 30]],
     [name |-> "100 Club", requirement |-> [entries |-> 100]],
     [name |-> "Goal Crusher", requirement |-> [goalsCompleted |-> 1]],
     [name |-> "Mood Tracker", requirement |-> [moodEntries |-> 10]],
     [name |-> "Early Bird", requirement |-> [morningEntries |-> 5]],
     [name |-> "Night Owl", requirement |-> [eveningEntries |-> 5]],
     [name |-> "Variety King", requirement |-> [uniqueActivities |-> 10]],
     [name |-> "Positive Vibes", requirement |-> [positiveCount |-> 20]],
     [name |-> "Insight Seeker", requirement |-> [insightsViewed |-> 10]],
     [name |-> "Streak Saver", requirement |-> [streakSaved |-> 1]],
     [name |-> "Triple Threat", requirement |-> [categories |-> 3]],
     [name |-> "Iron Will", requirement |-> [positiveRatio |-> 9, days |-> 7]] >>

\* badge.requirement.<key>: 0 stands for an absent key, which is falsy too
Req(badge, key) ==
  IF key \in DOMAIN badge.requirement THEN badge.requirement[key] ELSE 0

\* the nine tests of checkForNewBadges
earned(badge, stats) ==
  \/ Req(badge, "entries") # 0 /\ stats.totalEntries >= Req(badge, "entries")
  \/ Req(badge, "streak") # 0 /\ stats.currentStreak >= Req(badge, "streak")
  \/ Req(badge, "goalsCompleted") # 0
       /\ stats.goalsCompleted >= Req(badge, "goalsCompleted")
  \/ Req(badge, "moodEntries") # 0 /\ stats.moodEntries >= Req(badge, "moodEntries")
  \/ Req(badge, "morningEntries") # 0
       /\ stats.morningEntries >= Req(badge, "morningEntries")
  \/ Req(badge, "eveningEntries") # 0
       /\ stats.eveningEntries >= Req(badge, "eveningEntries")
  \/ Req(badge, "uniqueActivities") # 0
       /\ stats.uniqueActivities >= Req(badge, "uniqueActivities")
  \/ Req(badge, "positiveCount") # 0
       /\ stats.positiveCount >= Req(badge, "positiveCount")
  \/ Req(badge, "categories") # 0 /\ stats.categories >= Req(badge, "categories")

-----------------------------------------------------------------------------
(* recalculateStats: the statistics of a list of entries and of goals *)

sPositiveWord == <<"p", "o", "s", "i", "t", "i", "v", "e">>
sNegativeWord == <<"n", "e", "g", "a", "t", "i", "v", "e">>

\* entry.type?.includes('positive'), else entry.type?.includes('negative')
isPositive(e) == Contains(StrOf(e.type), sPositiveWord)
isNegative(e) == ~isPositive(e) /\ Contains(StrOf(e.type), sNegativeWord)

\* points that do not penalise a negative entry
entryPointsNoPenalty(e) ==
  IF isPositive(e) THEN POINTS_CONFIG.positiveHabit ELSE NeutralPoints

entryPoints(e) ==
  IF isPositive(e) THEN POINTS_CONFIG.positiveHabit
  ELSE IF isNegative(e) THEN POINTS_CONFIG.negativeBehavior
  ELSE NeutralPoints

RECURSIVE sumPoints(_)
sumPoints(es) ==
  IF es = <<>> THEN 0 ELSE entryPoints(Head(es)) + sumPoints(Tail(es))

\* new Date(entry.date).getHours(): the local hour of an instant, the first
\* instant of a day being hour 0 and the last hour 23
GetHours(t) == (TodOf(t) * 23) \div (TPD - 1)

\* toISOString().split('T')[0]: the UTC calendar day of an instant
ISODate(t) == t \div TPD

\* the streak loop: day i before today's local midnight, rendered as a UTC
\* date, must be among the entry dates; at most one round per distinct date
RECURSIVE streakFrom(_, _, _)
streakFrom(dates, today, i) ==
  IF i < Cardinality(dates) /\ ISODate(AtLocal(today - i, 0)) \in dates
  THEN 1 + streakFrom(dates, today, i + 1)
  ELSE 0

\* entries[entries.length - 1].date under orderBy: { date: 'asc' }
lastActivityDate(es) ==
  IF es = <<>> THEN JNull
  ELSE JDate(CHOOSE d \in {es[i].date : i \in 1..Len(es)} :
               \A i \in 1..Len(es) : es[i].date <= d)

completedGoals(gs) ==
  {i \in 1..Len(gs) : gs[i].currentValue >= gs[i].targetValue}

\* everything recalculateStats computes before it touches the profile
computeStats(es, gs, t) ==
  LET idx == 1..Len(es)
      dates == {ISODate(es[i].date) : i \in idx}
      currentStreak == streakFrom(dates, DayOf(t), 0)
  IN
  [totalPoints |-> sumPoints(es)
                     + Cardinality(completedGoals(gs)) * POINTS_CONFIG.goalComplete
                     + currentStreak * POINTS_CONFIG.streak,
   currentStreak |-> currentStreak,
   lastActivityDate |-> lastActivityDate(es),
   totalEntries |-> Len(es),
   positiveCount |-> Cardinality({i \in idx : isPositive(es[i])}),
   negativeCount |-> Cardinality({i \in idx : isNegative(es[i])}),
   uniqueActivities |->
     Cardinality({es[i].activity : i \in {j \in idx : Truthy(es[j].activity)}}),
   categories |->
     Cardinality({es[i].category : i \in {j \in idx : Truthy(es[j].category)}}),
   moodEntries |-> Cardinality({i \in idx : Truthy(es[i].mood)}),
   morningEntries |-> Cardinality({i \in idx : GetHours(es[i].date) < 8}),
   eveningEntries |-> Cardinality({i \in idx : GetHours(es[i].date) >= 21}),
   goalsCompleted |-> Cardinality(completedGoals(gs))]

-----------------------------------------------------------------------------
(* GET /api/habits/stats: calculateStreaks *)

\* [...new Set(dates)].sort().reverse(): the distinct days, latest first
RECURSIVE sortedReversed(_)
sortedReversed(days) ==
  IF days = {} THEN <<>>
  ELSE LET d == CHOOSE x \in days : \A y \in days : y <= x
       IN <<d>> \o sortedReversed(days \ {d})

\* a run that is never restarted
nextTempNoRestart(dates, i, tempStreak) == tempStreak + 1

\* round i of the second loop: tempStreak restarts at 1 unless the previous
\* date is exactly one day later (diffDays === 1)
nextTemp(dates, i, tempStreak) ==
  IF i = 1 THEN 1
  ELSE IF dates[i - 1] - dates[i] = 1 THEN tempStreak + 1
  ELSE 1

\* the second loop: longestStreak is the largest tempStreak seen
RECURSIVE longestFrom(_, _, _, _)
longestFrom(dates, i, tempStreak, longestStreak) ==
  IF i > Len(dates) THEN longestStreak
  ELSE LET temp == nextTemp(dates, i, tempStreak)
       IN longestFrom(dates, i + 1, temp,
                      IF temp >= longestStreak THEN temp ELSE longestStreak)

\* a calculator that reports the run ending today as the longest
calculateStreaksLatestRun(es, t) ==
  LET days == {ISODate(es[i].date) : i \in 1..Len(es)}
  IN [current |-> streakFrom(days, DayOf(t), 0),
      longest |-> streakFrom(days, DayOf(t), 0),
      totalDays |-> Cardinality(days)]

calculateStreaks(es, t) ==
  LET days == {ISODate(es[i].date) : i \in 1..Len(es)}
      dates == sortedReversed(days)
  IN [current |-> streakFrom(days, DayOf(t), 0),
      longest |-> longestFrom(dates, 1, 0, 0),
      totalDays |-> Len(dates)]

-----------------------------------------------------------------------------
(* calculateLevel and getNextLevelProgress *)

levels ==
  << [min |-> 0, level |-> 1, title |-> "Beginner"],
     [min |-> 50, level |-> 2, title |-> "Apprentice"],
     [min |-> 150, level |-> 3, title |-> "Habit Builder"],
     [min |-> 300, level |-> 4, title |-> "Consistent"],
     [min |-> 500, level |-> 5, title |-> "Dedicated"],
     [min |-> 800, level |-> 6, title |-> "Habit Master"],
     [min |-> 1200, level |-> 7, title |-> "Champion"],
     [min |-> 1700, level |-> 8, title |-> "Legend"],
     [min |-> 2500, level |-> 9, title |-> "Habit God"],
     [min |-> 3500, level |-> 10, title |-> "Transcendent"] >>

\* the loop from the last level down returns the first whose min is reached;
\* when none is, levels[0]
calculateLevel(points) ==
  LET hit == {i \in 1..Len(levels) : points >= levels[i].min}
  IN IF hit = {} THEN levels[1]
     ELSE levels[CHOOSE i \in hit : \A j \in hit : j <= i]

levelThresholds == <<0, 50, 150, 300, 500, 800, 1200, 1700, 2500, 3500, 5000>>

\* Math.round((current / needed) * 100) for current >= 0: halves round up
roundPercent(current, needed) == (200 * current + needed) \div (2 * needed)

\* the first band [levelThresholds[i], levelThresholds[i + 1]) holding the
\* points; outside every band, { current: points, needed: 100, progress: 100 }
getNextLevelProgress(points) ==
  LET band == {i \in 1..(Len(levelThresholds) - 1) :
               points >= levelThresholds[i] /\ points < levelThresholds[i + 1]}
  IN IF band = {} THEN [current |-> points, needed |-> 100, progress |-> 100]
     ELSE LET i == CHOOSE k \in band : \A j \in band : k <= j
              current == points - levelThresholds[i]
              needed == levelThresholds[i + 1] - levelThresholds[i]
          IN [current |-> current, needed |-> needed,
              progress |-> roundPercent(current, needed)]

-----------------------------------------------------------------------------
(* GET /api/gamification: the handler, one step per store call *)

GameIds == 1..NumGames

NoStats == [totalEntries |-> 0]

IdleGLoc ==
  [pid |-> 0, es |-> <<>>, stats |-> NoStats, prior |-> 0,
   existing |-> <<>>, allBadges |-> <<>>, newBadges |-> <<>>, next |-> 0]

GInFlight(g) == gpc[g] \notin {"idle", "done"}

\* catch (error): 500 'Failed to fetch stats'
gameError(g) ==
  /\ gresp' = [gresp EXCEPT ![g] = [status |-> 500]]
  /\ gpc' = [gpc EXCEPT ![g] = "done"]

\* prisma.userProfile.findFirst(): any of the rows, none when there is none
GamFindProfile(g, fail) ==
  /\ gpc[g] = "idle"
  /\ IF fail
     THEN gameError(g) /\ UNCHANGED gloc
     ELSE /\ IF profiles = <<>>
             THEN /\ gpc' = [gpc EXCEPT ![g] = "create"]
                  /\ UNCHANGED gloc
             ELSE /\ \E id \in 1..Len(profiles) :
                       gloc' = [gloc EXCEPT ![g].pid = id]
                  /\ gpc' = [gpc EXCEPT ![g] = "entries"]
          /\ UNCHANGED gresp
  /\ UNCHANGED <<now, tz, entries, goals, listResp, postVars, profiles, badges, fin, fout>>

\* prisma.userProfile.create({ data: {} })
GamCreateProfile(g) ==
  /\ gpc[g] = "create"
  /\ profiles' = Append(profiles,
       [totalPoints |-> 0, currentStreak |-> 0, longestStreak |-> 0,
        lastActivityDate |-> JNull])
  /\ gloc' = [gloc EXCEPT ![g].pid = Len(profiles) + 1]
  /\ gpc' = [gpc EXCEPT ![g] = "entries"]
  /\ UNCHANGED <<now, tz, entries, goals, listResp, postVars, badges, gresp, fin, fout>>

\* prisma.habitEntry.findMany({ orderBy: { date: 'asc' } })
GamReadEntries(g) ==
  /\ gpc[g] = "entries"
  /\ gloc' = [gloc EXCEPT ![g].es = entries]
  /\ gpc' = [gpc EXCEPT ![g] = "goals"]
  /\ UNCHANGED <<now, tz, entries, goals, listResp, postVars, profiles, badges, gresp, fin, fout>>

\* prisma.goal.findMany(), then the statistics up to the streak bonus, with
\* `today` taken at this moment
GamReadGoals(g) ==
  /\ gpc[g] = "goals"
  /\ gloc' = [gloc EXCEPT ![g].stats = computeStats(gloc[g].es, goals, now),
                          ![g].es = <<>>]
  /\ gpc' = [gpc EXCEPT ![g] = "prior"]
  /\ UNCHANGED <<now, tz, entries, goals, listResp, postVars, profiles, badges, gresp, fin, fout>>

\* (await prisma.userProfile.findUnique({ where: { id } }))?.longestStreak || 0
GamReadPrior(g) ==
  /\ gpc[g] = "prior"
  /\ gloc' = [gloc EXCEPT ![g].prior = profiles[gloc[g].pid].longestStreak]
  /\ gpc' = [gpc EXCEPT ![g] = "update"]
  /\ UNCHANGED <<now, tz, entries, goals, listResp, postVars, profiles, badges, gresp, fin, fout>>

\* a longestStreak that is the recomputed streak alone
newLongestCurrentOnly(currentStreak, prior) == currentStreak

\* Math.max(currentStreak, prior)
newLongest(currentStreak, prior) ==
  IF currentStreak >= prior THEN currentStreak ELSE prior

\* prisma.userProfile.update: the four recomputed fields; the returned row,
\* spread into the statistics, is what the request reports
GamUpdateProfile(g) ==
  LET st == gloc[g].stats
      row == [totalPoints |-> st.totalPoints,
              currentStreak |-> st.currentStreak,
              longestStreak |-> newLongest(st.currentStreak, gloc[g].prior),
              lastActivityDate |-> st.lastActivityDate]
  IN
  /\ gpc[g] = "update"
  /\ profiles' = [profiles EXCEPT ![gloc[g].pid] = row]
  /\ gloc' = [gloc EXCEPT ![g].stats =
                [k \in DOMAIN st \cup {"longestStreak"} |->
                   IF k = "longestStreak" THEN row.longestStreak ELSE st[k]]]
  /\ gpc' = [gpc EXCEPT ![g] = "badges"]
  /\ UNCHANGED <<now, tz, entries, goals, listResp, postVars, badges, gresp, fin, fout>>

\* a membership test that never finds the badge among the existing ones
alreadyHeldNever(badge, existing) == FALSE

\* existingBadgeIds.includes(badge.name)
alreadyHeld(badge, existing) ==
  \E i \in 1..Len(existing) : existing[i].name = badge.name

\* a loop that does not skip the badges already held
nextGrantHeldToo(from, existing, stats) ==
  LET due == {k \in from..Len(BADGES) : earned(BADGES[k], stats)}
  IN IF due = {} THEN 0 ELSE CHOOSE k \in due : \A j \in due : k <= j

\* the loop over BADGES runs on to the next badge it has to create: the
\* catalogue position of that badge, 0 when the loop ends
nextGrant(from, existing, stats) ==
  LET due == {k \in from..Len(BADGES) :
                ~alreadyHeld(BADGES[k], existing) /\ earned(BADGES[k], stats)}
  IN IF due = {} THEN 0 ELSE CHOOSE k \in due : \A j \in due : k <= j

\* prisma.badge.findMany({ where: { userId: profileId } })
GamReadBadges(g) ==
  LET existing == SelectSeq(badges, LAMBDA b : b.userId = gloc[g].pid)
      k == nextGrant(1, existing, gloc[g].stats)
  IN
  /\ gpc[g] = "badges"
  /\ gloc' = [gloc EXCEPT ![g].existing = existing, ![g].allBadges = existing,
                          ![g].newBadges = <<>>, ![g].next = k]
  /\ gpc' = [gpc EXCEPT ![g] = IF k = 0 THEN "respond" ELSE "grant"]
  /\ UNCHANGED <<now, tz, entries, goals, listResp, postVars, profiles, badges, gresp, fin, fout>>

\* prisma.badge.create for the badge the loop stands at, pushed onto
\* newBadges and allBadges
GamCreateBadge(g) ==
  LET newBadge == [id |-> Len(badges) + 1, name |-> BADGES[gloc[g].next].name,
                   userId |-> gloc[g].pid]
      k == nextGrant(gloc[g].next + 1, gloc[g].existing, gloc[g].stats)
  IN
  /\ gpc[g] = "grant"
  /\ badges' = Append(badges, newBadge)
  /\ gloc' = [gloc EXCEPT ![g].newBadges = Append(@, newBadge),
                          ![g].allBadges = Append(@, newBadge),
                          ![g].next = k]
  /\ gpc' = [gpc EXCEPT ![g] = IF k = 0 THEN "respond" ELSE "grant"]
  /\ UNCHANGED <<now, tz, entries, goals, listResp, postVars, profiles, gresp, fin, fout>>

\* return NextResponse.json({ success: true,
\*   data: { profile, badges, newBadges, level, nextLevel } })
GamRespond(g) ==
  /\ gpc[g] = "respond"
  /\ gresp' = [gresp EXCEPT ![g] =
       [status |-> 200, profile |-> gloc[g].stats,
        badges |-> gloc[g].allBadges, newBadges |-> gloc[g].newBadges,
        level |-> calculateLevel(gloc[g].stats.totalPoints),
        nextLevel |-> getNextLevelProgress(gloc[g].stats.totalPoints)]]
  /\ gpc' = [gpc EXCEPT ![g] = "done"]
  /\ UNCHANGED <<now, tz, entries, goals, listResp, postVars, profiles, badges, gloc, fin, fout>>

\* a store call of the request throws
GamFail(g) ==
  /\ gpc[g] \in {"create", "entries", "goals", "prior", "update", "badges", "grant"}
  /\ gameError(g)
  /\ UNCHANGED <<now, tz, entries, goals, listResp, postVars, profiles, badges, gloc, fin, fout>>

\* the response is delivered; the handler's frame is gone
GamFinish(g) ==
  /\ gpc[g] = "done"
  /\ gpc' = [gpc EXCEPT ![g] = "idle"]
  /\ gloc' = [gloc EXCEPT ![g] = IdleGLoc]
  /\ gresp' = [gresp EXCEPT ![g] = NoResp]
  /\ UNCHANGED <<now, tz, entries, goals, listResp, postVars, profiles, badges, fin, fout>>

-----------------------------------------------------------------------------
(* The clock *)

Tick ==
  /\ now < MaxNow
  /\ now' = now + 1
  /\ UNCHANGED <<tz, entries, goals, pc, req, loc, resp, listResp, gameVars, fin, fout>>

-----------------------------------------------------------------------------
(* Request bodies *)

sRun == <<"r", "u", "n">>
sRunCap == <<"R", "u", "n">>
sRunning == <<"r", "u", "n", "n", "i", "n", "g">>
sText == <<"t">>

habitBody(rawText, activity, quantity, date) ==
  [rawText |-> rawText, activity |-> activity, type |-> JNull, category |-> JNull,
   quantity |-> quantity, unit |-> JNull, mood |-> JNull, sentiment |-> JNull,
   trigger |-> JNull, notes |-> JNull, tags |-> JNull, date |-> date]

\* bodies whose rawText or activity is missing or empty
InvalidBodies ==
  { habitBody(r, a, JNum(5), JNull) :
      r \in {JNull, JStr(<<>>), JStr(sText)},
      a \in {JNull, JStr(<<>>), JStr(sRun)} }
  \ { habitBody(JStr(sText), JStr(sRun), JNum(5), JNull) }

\* quantified and unquantified entries of two related activities, dated now
\* or back-dated to the first instant of the calendar
GoalSpecBodies ==
  { habitBody(JStr(sText), JStr(a), q, d) :
      a \in {sRun, sRunning},
      q \in {JNull, JNum(0), JNum(5), JNum(7)},
      d \in {JNull, JDate(0)} }
  \cup InvalidBodies

sPositive == <<"p", "o", "s", "i", "t", "i", "v", "e", " ", "h", "a", "b", "i", "t">>
sMorning == <<"m", "o", "r", "n", "i", "n", "g">>
sOther == <<"x">>

\* accepted bodies with every field absent or present
EntrySpecBodies ==
  { [rawText |-> JStr(sText), activity |-> JStr(a), type |-> ty, category |-> o,
     quantity |-> q, unit |-> o, mood |-> o, sentiment |-> o, trigger |-> o,
     notes |-> o, tags |-> tg, date |-> d] :
      a \in {sRun},
      ty \in {JNull, JStr(sPositive)},
      o \in {JNull, JStr(sOther)},
      q \in {JNull, JNum(0), JNum(5), JStr(<<"7">>)},
      tg \in {JNull, JArr(<<sMorning>>)},
      d \in {JNull} }

ListParams ==
  { [NoParams EXCEPT !.activity = a, !.limit = l, !.offset = o] :
      a \in {JNull, JStr(sRunCap)},
      l \in {JNull, JStr(<<"1">>)},
      o \in {JNull, JStr(<<"1">>)} }

GoalBodies ==
  { [title |-> JStr(sText), activity |-> JStr(a), targetValue |-> JNum(12), period |-> JStr(per)] :
      a \in {sRunCap, sRunning}, per \in {sDaily, sWeekly, sMonthly, sYearly} }

sNegative ==
  <<"n", "e", "g", "a", "t", "i", "v", "e", " ", "b", "e", "h", "a", "v", "i", "o", "r">>

\* entries of the gamification runs: without a type, positive and negative,
\* with and without a quantity
GameBodies ==
  { [habitBody(JStr(sText), JStr(sRun), q, JNull) EXCEPT !.type = ty] :
      ty \in {JNull, JStr(sPositive), JStr(sNegative)}, q \in {JNull, JNum(5)} }

\* a daily goal that one quantified entry completes
GameGoalBodies ==
  { [title |-> JStr(sText), activity |-> JStr(sRun), targetValue |-> JNum(5),
     period |-> JStr(sDaily)] }

\* PUT bodies that set a goal's progress back to 0
GoalResets == { [currentValue |-> JNum(0), isActive |-> JNull] }

-----------------------------------------------------------------------------
(* Specifications *)

\* no function of the analytics is being evaluated
NoCall == [fn |-> "none"]

vars == <<now, tz, entries, goals, pc, req, loc, resp, listResp,
         profiles, badges, gpc, gloc, gresp, fin, fout>>

NoList == [status |-> 0]

Init ==
  /\ now = 0
  /\ tz = 0
  /\ entries = <<>>
  /\ goals = <<>>
  /\ pc = [p \in PostIds |-> "idle"]
  /\ req = [p \in PostIds |-> NoBody]
  /\ loc = [p \in PostIds |-> IdleLoc]
  /\ resp = [p \in PostIds |-> NoResp]
  /\ listResp = NoList
  /\ profiles = <<>>
  /\ badges = <<>>
  /\ gpc = [g \in GameIds |-> "idle"]
  /\ gloc = [g \in GameIds |-> IdleGLoc]
  /\ gresp = [g \in GameIds |-> NoResp]
  /\ fin = NoCall
  /\ fout = NoCall

\* no other request is being handled
Quiet(p) == \A q \in PostIds \ {p} : ~InFlight(q) /\ pc[q] = "idle"
AllQuiet == \A q \in PostIds : pc[q] = "idle"

\* entry creation and goal maintenance, one request at a time
NextGoal ==
  \/ \E p \in SeqIds, body \in GoalSpecBodies, fail \in BOOLEAN :
       Quiet(p) /\ POSTCreate(p, body, fail)
  \/ \E p \in SeqIds, fail \in BOOLEAN : UpdFindGoals(p, fail)
  \/ \E p \in SeqIds, fail \in BOOLEAN : UpdSumEntries(p, fail)
  \/ \E p \in SeqIds, fail \in BOOLEAN : UpdWriteGoal(p, fail)
  \/ \E p \in SeqIds : POSTRespond(p)
  \/ \E p \in SeqIds : POSTFinish(p)
  \/ \E body \in GoalBodies : AllQuiet /\ GoalPOST(body)
  \/ AllQuiet /\ Tick

SpecGoal == Init /\ [][NextGoal]_vars

\* entry creation and listing, one request at a time
NextEntry ==
  \/ \E p \in SeqIds, body \in EntrySpecBodies, fail \in BOOLEAN :
       Quiet(p) /\ listResp.status = 0 /\ POSTCreate(p, body, fail)
  \/ \E p \in SeqIds, fail \in BOOLEAN : UpdFindGoals(p, fail)
  \/ \E p \in SeqIds : POSTRespond(p)
  \/ \E p \in SeqIds : POSTFinish(p)
  \/ \E params \in ListParams : (\A p \in PostIds : ~InFlight(p)) /\ GETHabits(params)
  \/ GETFinish

SpecEntry == Init /\ [][NextEntry]_vars

\* the server's offset from UTC, in instants
TzOffsets == {-1, 0, 1}

InitGame ==
  /\ now = 0
  /\ tz \in TzOffsets
  /\ entries = <<>>
  /\ goals = <<>>
  /\ pc = [p \in PostIds |-> "idle"]
  /\ req = [p \in PostIds |-> NoBody]
  /\ loc = [p \in PostIds |-> IdleLoc]
  /\ resp = [p \in PostIds |-> NoResp]
  /\ listResp = NoList
  /\ profiles = <<>>
  /\ badges = <<>>
  /\ gpc = [g \in GameIds |-> "idle"]
  /\ gloc = [g \in GameIds |-> IdleGLoc]
  /\ gresp = [g \in GameIds |-> NoResp]
  /\ fin = NoCall
  /\ fout = NoCall

\* no request of any kind is being handled
NoRequest ==
  /\ \A p \in PostIds : pc[p] = "idle"
  /\ \A g \in GameIds : gpc[g] = "idle"

\* the steps of an entry submission whose store calls succeed
PostSteps(p) ==
  \/ \E body \in GameBodies : NoRequest /\ POSTCreate(p, body, FALSE)
  \/ UpdFindGoals(p, FALSE)
  \/ UpdSumEntries(p, FALSE)
  \/ UpdWriteGoal(p, FALSE)
  \/ POSTRespond(p)
  \/ POSTFinish(p)

\* the steps of a gamification request after its first
GameSteps(g) ==
  \/ GamCreateProfile(g)
  \/ GamReadEntries(g)
  \/ GamReadGoals(g)
  \/ GamReadPrior(g)
  \/ GamUpdateProfile(g)
  \/ GamReadBadges(g)
  \/ GamCreateBadge(g)
  \/ GamRespond(g)
  \/ GamFail(g)
  \/ GamFinish(g)

\* entries, goals and gamification requests, one request at a time
NextGame ==
  \/ \E p \in SeqIds : PostSteps(p)
  \/ \E body \in GameGoalBodies : NoRequest /\ GoalPOST(body)
  \/ \E id \in 1..MaxGoals, data \in GoalResets : NoRequest /\ GoalPUT(id, data)
  \/ NoRequest /\ Tick
  \/ \E g \in SeqIds, fail \in BOOLEAN : NoRequest /\ GamFindProfile(g, fail)
  \/ \E g \in SeqIds : GameSteps(g)

SpecGame == InitGame /\ [][NextGame]_vars

\* the entry the overlapping requests find
ConcBodies == { habitBody(JStr(sText), JStr(sRun), JNull, JNull) }

\* gamification requests that overlap one another, entries being submitted
\* between them
NextGameConc ==
  \/ \E p \in SeqIds, body \in ConcBodies : NoRequest /\ POSTCreate(p, body, FALSE)
  \/ \E p \in SeqIds : POSTRespond(p)
  \/ \E p \in SeqIds : POSTFinish(p)
  \/ \E g \in GameIds, fail \in BOOLEAN :
       (\A p \in PostIds : pc[p] = "idle") /\ GamFindProfile(g, fail)
  \/ \E g \in GameIds : GameSteps(g)

SpecGameConc == Init /\ [][NextGameConc]_vars

-----------------------------------------------------------------------------
(* Goal progress: what the goal's period window and sum are specified to be *)

\* daily = the local day; weekly = Sunday 00:00 through the end of Saturday;
\* monthly = 00:00 of the first day through the end of the last day
SpecifiedWindow(period, t) ==
  CASE period = sDaily ->
         [startDate |-> AtLocal(DayOf(t), 0), endDate |-> AtLocal(DayOf(t), TPD - 1)]
    [] period = sWeekly ->
         [startDate |-> AtLocal(DayOf(t) - GetDay(t), 0),
          endDate |-> AtLocal(DayOf(t) - GetDay(t) + 6, TPD - 1)]
    [] period = sMonthly ->
         [startDate |-> AtLocal(FirstOfMonth(t), 0),
          endDate |-> AtLocal(LastOfMonth(t), TPD - 1)]

\* sum of quantity over the stored entries whose activity contains the goal's
\* activity and whose date lies in the goal's window at time t
SpecifiedSum(g, t) ==
  LET w == SpecifiedWindow(g.period, t) IN
  totalQuantity(SelectSeq(entries, LAMBDA e :
    /\ ContainsInsensitive(StrOf(e.activity), g.activity)
    /\ e.date >= w.startDate
    /\ e.date <= w.endDate))

Created(p) == pc[p] = "done" /\ resp[p].status = 200

\* the creation completed and its goal-progress update met no store failure
CreatedClean(p) == Created(p) /\ loc[p].failed = "none"

SameActivity(p, g) == ToLower(req[p].activity.str) = ToLower(g.activity)

\* C1: after an entry creation with a non-null quantity completes, every
\* active goal whose activity is a case-insensitive substring of the entry's
\* activity has currentValue equal to the sum of quantity over the stored
\* entries that contain the goal's activity and are dated in its window.
C1_GoalIsWindowSum ==
  \A p \in PostIds :
    (CreatedClean(p) /\ ~IsNull(req[p].quantity)) =>
      \A i \in 1..Len(goals) :
        (/\ goals[i].isActive
         /\ KnownPeriod(goals[i].period)
         /\ ContainsInsensitive(req[p].activity.str, goals[i].activity))
        => goals[i].currentValue = SpecifiedSum(goals[i], now)

\* C2: for an active monthly goal, after an entry of the goal's own activity
\* with a positive quantity is logged, currentValue is the sum over the
\* matching entries dated from 00:00 of the first day of the month through the
\* end of its last day.
C2_MonthlySum ==
  \A p \in PostIds :
    (CreatedClean(p) /\ Truthy(req[p].quantity)) =>
      \A i \in 1..Len(goals) :
        (/\ goals[i].isActive
         /\ goals[i].period = sMonthly
         /\ SameActivity(p, goals[i]))
        => goals[i].currentValue = SpecifiedSum(goals[i], now)

\* C3: for an active weekly goal, the recomputed currentValue is the sum over
\* the matching entries dated from Sunday 00:00 through the end of Saturday of
\* the week containing now, whatever the time of day of the recomputation.
C3_WeeklySum ==
  \A p \in PostIds :
    (CreatedClean(p) /\ Truthy(req[p].quantity)) =>
      \A i \in 1..Len(goals) :
        (/\ goals[i].isActive
         /\ goals[i].period = sWeekly
         /\ SameActivity(p, goals[i]))
        => goals[i].currentValue = SpecifiedSum(goals[i], now)

\* C4: every successful entry creation that carries a non-null quantity, a
\* quantity of 0 included, has run the goal-progress recomputation by the
\* time its response is returned.
C4_QuantityTriggersUpdate ==
  \A p \in PostIds :
    (Created(p) /\ ~IsNull(req[p].quantity)) => loc[p].ran

\* C5: when the goal-progress update fails at its goal lookup, entry sum or
\* goal write, the creation still answers success with the stored entry and
\* that entry is in the store.
C5_UpdateFailureIsSwallowed ==
  \A p \in PostIds :
    (pc[p] = "done" /\ loc[p].failed # "none") =>
      /\ resp[p].status = 200
      /\ loc[p].hid \in 1..Len(entries)
      /\ resp[p].data = entries[loc[p].hid]
      /\ entries[loc[p].hid].activity = req[p].activity

C5_Witness ==
  \E p \in PostIds : pc[p] = "done" /\ loc[p].failed = "write" /\ resp[p].status = 200

\* a required field that is missing or empty
Missing(v) == IsNull(v) \/ (IsStr(v) /\ v.str = <<>>)

\* C6: an entry-creation request whose rawText or activity is missing or
\* empty is answered with a client error and leaves the entries and the goals
\* as they were.
C6_InvalidBodyRejected ==
  [][\A p \in PostIds :
       (/\ pc[p] = "idle" /\ pc'[p] # "idle"
        /\ (Missing(req'[p].rawText) \/ Missing(req'[p].activity)))
       => (/\ pc'[p] = "done"
           /\ resp'[p].status = 400
           /\ entries' = entries
           /\ goals' = goals)]_vars

C6_Witness ==
  \E p \in PostIds :
    /\ pc[p] = "done" /\ resp[p].status = 400
    /\ Truthy(req[p].rawText) /\ req[p].activity = JStr(<<>>)
    /\ Len(goals) > 0

\* what was submitted for a field, as the store represents it: a number for a
\* quantity, the serialised array for tags
Submitted(v) ==
  CASE IsArr(v) -> JStr(Stringify(v))
    [] IsStr(v) /\ v.str # <<>> /\ DigitVal(Head(v.str)) >= 0 -> JNum(ParseFloat(v))
    [] OTHER -> v

RoundTrip(body, e) ==
  /\ e.rawText = body.rawText
  /\ e.activity = body.activity
  /\ e.type = body.type
  /\ e.category = body.category
  /\ e.quantity = Submitted(body.quantity)
  /\ e.unit = body.unit
  /\ e.mood = body.mood
  /\ e.sentiment = body.sentiment
  /\ e.trigger = body.trigger
  /\ e.notes = body.notes
  /\ e.tags = Submitted(body.tags)
  /\ Truthy(body.date) => e.date = body.date.date

\* C7: for every accepted creation request, the entry later returned by the
\* list operation has the rawText, activity, type, category, quantity, unit,
\* mood, sentiment, trigger, notes and tags that were submitted.
C7_RoundTrip ==
  \A p \in PostIds :
    (Created(p) /\ listResp.status = 200) =>
      \A k \in 1..Len(listResp.data) :
        listResp.data[k].id = resp[p].data.id => RoundTrip(req[p], listResp.data[k])

-----------------------------------------------------------------------------
(* Badges and the longest streak *)

\* a gamification request has been answered with its snapshot
Answered(g) == gpc[g] = "done" /\ gresp[g].status = 200

\* the catalogue entry of a badge row
CatalogueOf(b) == CHOOSE k \in 1..Len(BADGES) : BADGES[k].name = b.name

\* C8: in every reachable state there is at most one Badge row per badge
\* name per profile, whatever the interleaving of the gamification requests
C8_OneBadgePerName ==
  \A i, j \in 1..Len(badges) :
    (badges[i].name = badges[j].name /\ badges[i].userId = badges[j].userId)
      => i = j

\* C9: every badge granted so far is in the badge list of an answered
\* request, whether or not its threshold is still met, and a badge reported
\* in newBadges was not granted before
C9_GrantedBadgeStays ==
  \A g \in GameIds : Answered(g) =>
    /\ \A k \in 1..Len(badges) :
         \E i \in 1..Len(gresp[g].badges) : gresp[g].badges[i] = badges[k]
    /\ \A i \in 1..Len(gresp[g].newBadges) :
         \A k \in 1..Len(badges) :
           badges[k].name = gresp[g].newBadges[i].name
             => k >= gresp[g].newBadges[i].id

\* a request granted nothing and lists a badge whose threshold its own
\* statistics no longer meet
C9_Witness ==
  \E g \in GameIds :
    /\ Answered(g)
    /\ gresp[g].newBadges = <<>>
    /\ \E i \in 1..Len(gresp[g].badges) :
         ~earned(BADGES[CatalogueOf(gresp[g].badges[i])], gresp[g].profile)

\* C10: no step lowers a stored longestStreak, and the profile update of a
\* request writes max(recomputed current streak, stored longestStreak)
C10_LongestStreakNeverDecreases ==
  [][ /\ Len(profiles') >= Len(profiles)
      /\ \A i \in 1..Len(profiles) :
           profiles'[i].longestStreak >= profiles[i].longestStreak
      /\ \A g \in GameIds :
           (gpc[g] = "update" /\ gpc'[g] = "badges") =>
             LET cur == gloc[g].stats.currentStreak
                 old == profiles[gloc[g].pid].longestStreak
             IN profiles'[gloc[g].pid].longestStreak
                  = (IF cur >= old THEN cur ELSE old) ]_vars

\* a request recomputed a current streak below the stored longest streak
C10_Witness ==
  \E g \in GameIds :
    /\ Answered(g)
    /\ gresp[g].profile.currentStreak < gresp[g].profile.longestStreak
    /\ profiles[gloc[g].pid].longestStreak = gresp[g].profile.longestStreak

-----------------------------------------------------------------------------
(* Points *)

TypeHas(e, word) == IsStr(e.type) /\ Contains(e.type.str, word)

\* the point total of the fixed table for a history and a current streak
SpecifiedPoints(es, gs, streak) ==
  LET idx == 1..Len(es)
      pos == {i \in idx : TypeHas(es[i], sPositiveWord)}
      neg == {i \in idx \ pos : TypeHas(es[i], sNegativeWord)}
      done == {i \in 1..Len(gs) : gs[i].currentValue >= gs[i].targetValue}
  IN 10 * Cardinality(pos) - 5 * Cardinality(neg)
       + 5 * Cardinality(idx \ (pos \cup neg))
       + 50 * Cardinality(done) + 5 * streak

-----------------------------------------------------------------------------
(* Levels *)

\* the ten level thresholds as specified
SpecifiedThresholds == {0, 50, 150, 300, 500, 800, 1200, 1700, 2500, 3500}

\* C12: the level reported for a point total the engine produced has the
\* highest threshold that is <= the total, so its threshold never exceeds
\* the total
C12_LevelIsHighestReached ==
  \A g \in GameIds : Answered(g) =>
    LET points == gresp[g].profile.totalPoints
        lv == gresp[g].level
    IN /\ lv.min \in SpecifiedThresholds
       /\ lv.min <= points
       /\ \A t \in SpecifiedThresholds : t <= points => t <= lv.min

-----------------------------------------------------------------------------
(* The analytics functions evaluated on their own *)

appVars == <<now, tz, entries, goals, listResp, postVars, gameVars>>

\* the application at rest
AppIdle ==
  /\ entries = <<>>
  /\ goals = <<>>
  /\ pc = [p \in PostIds |-> "idle"]
  /\ req = [p \in PostIds |-> NoBody]
  /\ loc = [p \in PostIds |-> IdleLoc]
  /\ resp = [p \in PostIds |-> NoResp]
  /\ listResp = NoList
  /\ profiles = <<>>
  /\ badges = <<>>
  /\ gpc = [g \in GameIds |-> "idle"]
  /\ gloc = [g \in GameIds |-> IdleGLoc]
  /\ gresp = [g \in GameIds |-> NoResp]

\* point totals around every level threshold, below zero included
PointInputs ==
  {levelThresholds[i] + d : i \in 1..Len(levelThresholds), d \in -PointSlack..PointSlack}

InitLevel ==
  /\ AppIdle
  /\ now = 0
  /\ tz = 0
  /\ fin \in {[fn |-> "level", points |-> n] : n \in PointInputs}
  /\ fout = NoCall

\* level: calculateLevel(totalPoints), nextLevel: getNextLevelProgress(totalPoints)
CallLevel ==
  /\ fin.fn = "level" /\ fout = NoCall
  /\ fout' = [fn |-> "level", level |-> calculateLevel(fin.points),
               nextLevel |-> getNextLevelProgress(fin.points)]
  /\ UNCHANGED <<fin, appVars>>

NextLevel == CallLevel

SpecLevel == InitLevel /\ [][NextLevel]_vars

\* C13: at or above 3500 points next-level progress is saturated, progress
\* 100 and needed 100; from 0 up to 3500 it is the integer percent of
\* (points - current threshold) / (next threshold - current threshold)
C13_NextLevelProgress ==
  fout.fn = "level" =>
    LET points == fin.points
        nl == fout.nextLevel
    IN /\ points >= 3500 => (nl.progress = 100 /\ nl.needed = 100)
       /\ (points >= 0 /\ points < 3500) =>
            LET cur == CHOOSE t \in SpecifiedThresholds :
                         t <= points /\ \A u \in SpecifiedThresholds : u <= points => u <= t
                nxt == CHOOSE t \in SpecifiedThresholds :
                         t > points /\ \A u \in SpecifiedThresholds : u > points => t <= u
            IN /\ nl.progress \in 0..100
               /\ nl.progress * (nxt - cur) - 100 * (points - cur) \in -(nxt - cur)..(nxt - cur)

-----------------------------------------------------------------------------
(* Streaks *)

StreakInstants == 0..((StreakDays + 1) * TPD - 1)

\* an entry of the history with its date
streakEntry(t) == newEntry(habitBody(JStr(sText), JStr(sRun), JNull, JDate(t)), 0)

StreakHistories ==
  UNION { [1..n -> StreakInstants] : n \in 0..MaxStreakEntries }

\* a history in any order, read on one of the last two days, at any offset
InitStreak ==
  /\ AppIdle
  /\ now \in ((StreakDays - 1) * TPD)..((StreakDays + 1) * TPD - 1)
  /\ tz \in TzOffsets
  /\ fin \in {[fn |-> "streaks", dates |-> h] : h \in StreakHistories}
  /\ fout = NoCall

\* calculateStreaks(entries) of the statistics and the streak of
\* recalculateStats over the same entries
CallStreaks ==
  LET es == [i \in 1..Len(fin.dates) |-> streakEntry(fin.dates[i])] IN
  /\ fin.fn = "streaks" /\ fout = NoCall
  /\ fout' = [fn |-> "streaks", streaks |-> calculateStreaks(es, now),
               game |-> computeStats(es, <<>>, now).currentStreak]
  /\ UNCHANGED <<fin, appVars>>

NextStreak == CallStreaks

SpecStreak == InitStreak /\ [][NextStreak]_vars

\* the local calendar day of an instant
LocalDay(t) == (t + tz) \div TPD

\* the number of consecutive local days, today backward, that hold an entry
RECURSIVE SpecifiedStreak(_, _)
SpecifiedStreak(localDays, day) ==
  IF day \in localDays THEN 1 + SpecifiedStreak(localDays \ {day}, day - 1) ELSE 0

\* C14: the current streak, of the statistics and of the gamification
\* recompute, is the number of consecutive local calendar days, counting
\* backward from today, that each hold an entry, at every server offset
C14_CurrentStreakLocalDays ==
  fout.fn = "streaks" =>
    LET localDays == {LocalDay(fin.dates[i]) : i \in 1..Len(fin.dates)}
        streak == SpecifiedStreak(localDays, LocalDay(now))
    IN fout.streaks.current = streak /\ fout.game = streak

\* the length of the longest run of consecutive days in a set of days
SpecifiedLongest(days) ==
  LET runs == {n \in 1..Cardinality(days) :
                 \E d \in days : \A k \in 0..(n - 1) : d + k \in days}
  IN IF runs = {} THEN 0 ELSE CHOOSE n \in runs : \A m \in runs : m <= n

\* C15: the longest streak is the length of the longest run of consecutive
\* calendar days among the distinct entry dates, whatever today is and
\* whatever the order of the entries
C15_LongestRun ==
  fout.fn = "streaks" =>
    fout.streaks.longest
      = SpecifiedLongest({ISODate(fin.dates[i]) : i \in 1..Len(fin.dates)})

\* dates {D, D-1, D-2, D-5} submitted out of order give 3
C15_Witness ==
  /\ fout.fn = "streaks"
  /\ Len(fin.dates) = 4
  /\ {ISODate(fin.dates[i]) : i \in 1..4} = {0, 3, 4, 5}
  /\ fin.dates[1] < fin.dates[2]
  /\ fout.streaks.longest = 3

-----------------------------------------------------------------------------
(* POST /api/habits/parse: the fallback classifier *)

behaviorPatterns ==
  <<
    [patterns |-> <<
        <<"s", "k", "i", "p", " ", "s", "c", "h", "o", "o", "l">>,
        <<"s", "k", "i", "p", "p", "e", "d", " ", "s", "c", "h", "o", "o", "l">>,
        <<"d", "o", "n", "'", "t", " ", "g", "o", " ", "t", "o", " ", "s", "c", "h", "o", "o", "l">>,
        <<"m", "i", "s", "s", " ", "s", "c", "h", "o", "o", "l">>,
        <<"m", "i", "s", "s", "e", "d", " ", "s", "c", "h", "o", "o", "l">> >>,
     activity |-> <<"s", "k", "i", "p", " ", "s", "c", "h", "o", "o", "l">>,
     type |-> <<"n", "e", "g", "a", "t", "i", "v", "e", " ", "b", "e", "h", "a", "v", "i", "o", "r">>,
     category |-> <<"e", "d", "u", "c", "a", "t", "i", "o", "n">>,
     moodHint |-> <<"g", "u", "i", "l", "t", "y">>,
     sentiment |-> <<"n", "e", "g", "a", "t", "i", "v", "e">>],
    [patterns |-> <<
        <<"s", "k", "i", "p", " ", "w", "o", "r", "k">>,
        <<"s", "k", "i", "p", "p", "e", "d", " ", "w", "o", "r", "k">>,
        <<"m", "i", "s", "s", " ", "w", "o", "r", "k">>,
        <<"m", "i", "s", "s", "e", "d", " ", "w", "o", "r", "k">>,
        <<"d", "i", "d", "n", "'", "t", " ", "g", "o", " ", "t", "o", " ", "w", "o", "r", "k">> >>,
     activity |-> <<"s", "k", "i", "p", " ", "w", "o", "r", "k">>,
     type |-> <<"n", "e", "g", "a", "t", "i", "v", "e", " ", "b", "e", "h", "a", "v", "i", "o", "r">>,
     category |-> <<"w", "o", "r", "k">>,
     moodHint |-> <<"g", "u", "i", "l", "t", "y">>,
     sentiment |-> <<"n", "e", "g", "a", "t", "i", "v", "e">>],
    [patterns |-> <<
        <<"s", "k", "i", "p", " ", "c", "l", "a", "s", "s">>,
        <<"s", "k", "i", "p", "p", "e", "d", " ", "c", "l", "a", "s", "s">>,
        <<"m", "i", "s", "s", " ", "c", "l", "a", "s", "s">> >>,
     activity |-> <<"s", "k", "i", "p", " ", "c", "l", "a", "s", "s">>,
     type |-> <<"n", "e", "g", "a", "t", "i", "v", "e", " ", "b", "e", "h", "a", "v", "i", "o", "r">>,
     category |-> <<"e", "d", "u", "c", "a", "t", "i", "o", "n">>,
     moodHint |-> <<"g", "u", "i", "l", "t", "y">>,
     sentiment |-> <<"n", "e", "g", "a", "t", "i", "v", "e">>],
    [patterns |-> <<
        <<"p", "r", "o", "c", "r", "a", "s", "t", "i", "n", "a", "t", "e">>,
        <<"p", "r", "o", "c", "r", "a", "s", "t", "i", "n", "a", "t", "e", "d">>,
        <<"p", "u", "t", "t", "i", "n", "g", " ", "o", "f", "f">>,
        <<"a", "v", "o", "i", "d", "i", "n", "g", " ", "w", "o", "r", "k">>,
        <<"d", "i", "d", "n", "'", "t", " ", "d", "o">> >>,
     activity |-> <<"p", "r", "o", "c", "r", "a", "s", "t", "i", "n", "a", "t", "e">>,
     type |-> <<"n", "e", "g", "a", "t", "i", "v", "e", " ", "b", "e", "h", "a", "v", "i", "o", "r">>,
     category |-> <<"p", "r", "o", "d", "u", "c", "t", "i", "v", "i", "t", "y">>,
     moodHint |-> <<"f", "r", "u", "s", "t", "r", "a", "t", "e", "d">>,
     sentiment |-> <<"n", "e", "g", "a", "t", "i", "v", "e">>],
    [patterns |-> <<
        <<"s", "t", "a", "y", "e", "d", " ", "u", "p">>,
        <<"s", "t", "a", "y", " ", "u", "p">>,
        <<"u", "p", " ", "a", "l", "l", " ", "n", "i", "g", "h", "t">>,
        <<"c", "o", "u", "l", "d", "n", "'", "t", " ", "s", "l", "e", "e", "p">>,
        <<"i", "n", "s", "o", "m", "n", "i", "a">> >>,
     activity |-> <<"s", "l", "e", "e", "p", " ", "l", "a", "t", "e">>,
     type |-> <<"n", "e", "g", "a", "t", "i", "v", "e", " ", "b", "e", "h", "a", "v", "i", "o", "r">>,
     category |-> <<"s", "l", "e", "e", "p">>,
     moodHint |-> <<"t", "i", "r", "e", "d">>,
     sentiment |-> <<"n", "e", "g", "a", "t", "i", "v", "e">>],
    [patterns |-> <<
        <<"o", "v", "e", "r", "s", "l", "e", "e", "p">>,
        <<"o", "v", "e", "r", "s", "l", "e", "p", "t">>,
        <<"s", "l", "e", "p", "t", " ", "i", "n">>,
        <<"s", "l", "e", "p", "t", " ", "t", "h", "r", "o", "u", "g", "h">> >>,
     activity |-> <<"o", "v", "e", "r", "s", "l", "e", "e", "p">>,
     type |-> <<"n", "e", "g", "a", "t", "i", "v", "e", " ", "b", "e", "h", "a", "v", "i", "o", "r">>,
     category |-> <<"s", "l", "e", "e", "p">>,
     moodHint |-> <<"g", "r", "o", "g", "g", "y">>,
     sentiment |-> <<"n", "e", "g", "a", "t", "i", "v", "e">>],
    [patterns |-> <<
        <<"d", "o", "o", "m", " ", "s", "c", "r", "o", "l", "l">>,
        <<"d", "o", "o", "m", " ", "s", "c", "r", "o", "l", "l", "i", "n", "g">>,
        <<"s", "c", "r", "o", "l", "l", "i", "n", "g", " ", "a", "l", "l", " ", "n", "i", "g", "h", "t">> >>,
     activity |-> <<"d", "o", "o", "m", " ", "s", "c", "r", "o", "l", "l">>,
     type |-> <<"n", "e", "g", "a", "t", "i", "v", "e", " ", "b", "e", "h", "a", "v", "i", "o", "r">>,
     category |-> <<"h", "a", "b", "i", "t", "s">>,
     moodHint |-> <<"r", "e", "g", "r", "e", "t", "f", "u", "l">>,
     sentiment |-> <<"n", "e", "g", "a", "t", "i", "v", "e">>],
    [patterns |-> <<
        <<"b", "i", "n", "g", "e", " ", "e", "a", "t">>,
        <<"b", "i", "n", "g", "e", " ", "e", "a", "t", "i", "n", "g">>,
        <<"o", "v", "e", "r", "e", "a", "t">>,
        <<"a", "t", "e", " ", "t", "o", "o", " ", "m", "u", "c", "h">>,
        <<"s", "t", "u", "f", "f", " ", "m", "y", "s", "e", "l", "f">> >>,
     activity |-> <<"b", "i", "n", "g", "e", " ", "e", "a", "t">>,
     type |-> <<"n", "e", "g", "a", "t", "i", "v", "e", " ", "b", "e", "h", "a", "v", "i", "o", "r">>,
     category |-> <<"n", "u", "t", "r", "i", "t", "i", "o", "n">>,
     moodHint |-> <<"d", "i", "s", "g", "u", "s", "t", "e", "d">>,
     sentiment |-> <<"n", "e", "g", "a", "t", "i", "v", "e">>],
    [patterns |-> <<
        <<"s", "k", "i", "p", " ", "m", "e", "a", "l">>,
        <<"s", "k", "i", "p", "p", "e", "d", " ", "m", "e", "a", "l">>,
        <<"d", "i", "d", "n", "'", "t", " ", "e", "a", "t">>,
        <<"f", "o", "r", "g", "o", "t", " ", "t", "o", " ", "e", "a", "t">> >>,
     activity |-> <<"s", "k", "i", "p", " ", "m", "e", "a", "l">>,
     type |-> <<"n", "e", "g", "a", "t", "i", "v", "e", " ", "b", "e", "h", "a", "v", "i", "o", "r">>,
     category |-> <<"n", "u", "t", "r", "i", "t", "i", "o", "n">>,
     moodHint |-> <<"t", "i", "r", "e", "d">>,
     sentiment |-> <<"n", "e", "g", "a", "t", "i", "v", "e">>],
    [patterns |-> <<
        <<"a", "r", "g", "u", "e">>,
        <<"a", "r", "g", "u", "m", "e", "n", "t">>,
        <<"a", "r", "g", "u", "e", "d", " ", "w", "i", "t", "h">>,
        <<"f", "i", "g", "h", "t", " ", "w", "i", "t", "h">>,
        <<"f", "o", "u", "g", "h", "t", " ", "w", "i", "t", "h">> >>,
     activity |-> <<"a", "r", "g", "u", "e">>,
     type |-> <<"n", "e", "g", "a", "t", "i", "v", "e", " ", "b", "e", "h", "a", "v", "i", "o", "r">>,
     category |-> <<"r", "e", "l", "a", "t", "i", "o", "n", "s", "h", "i", "p", "s">>,
     moodHint |-> <<"a", "n", "g", "r", "y">>,
     sentiment |-> <<"n", "e", "g", "a", "t", "i", "v", "e">>],
    [patterns |-> <<
        <<"g", "h", "o", "s", "t">>, <<"g", "h", "o", "s", "t", "e", "d">>,
        <<"i", "g", "n", "o", "r", "e">>,
        <<"i", "g", "n", "o", "r", "e", "d">> >>,
     activity |-> <<"i", "g", "n", "o", "r", "e", " ", "s", "o", "m", "e", "o", "n", "e">>,
     type |-> <<"n", "e", "g", "a", "t", "i", "v", "e", " ", "b", "e", "h", "a", "v", "i", "o", "r">>,
     category |-> <<"r", "e", "l", "a", "t", "i", "o", "n", "s", "h", "i", "p", "s">>,
     moodHint |-> <<"g", "u", "i", "l", "t", "y">>,
     sentiment |-> <<"n", "e", "g", "a", "t", "i", "v", "e">>],
    [patterns |-> <<
        <<"y", "e", "l", "l">>, <<"y", "e", "l", "l", "e", "d">>,
        <<"s", "h", "o", "u", "t">>, <<"s", "h", "o", "u", "t", "e", "d">>,
        <<"s", "c", "r", "e", "a", "m">>,
        <<"s", "c", "r", "e", "a", "m", "e", "d">> >>,
     activity |-> <<"y", "e", "l", "l">>,
     type |-> <<"n", "e", "g", "a", "t", "i", "v", "e", " ", "b", "e", "h", "a", "v", "i", "o", "r">>,
     category |-> <<"r", "e", "l", "a", "t", "i", "o", "n", "s", "h", "i", "p", "s">>,
     moodHint |-> <<"a", "n", "g", "r", "y">>,
     sentiment |-> <<"n", "e", "g", "a", "t", "i", "v", "e">>],
    [patterns |-> <<
        <<"s", "m", "o", "k", "e">>, <<"s", "m", "o", "k", "e", "d">>,
        <<"h", "a", "d", " ", "a", " ", "c", "i", "g", "a", "r", "e", "t", "t", "e">>,
        <<"v", "a", "p", "e">> >>,
     activity |-> <<"s", "m", "o", "k", "e">>,
     type |-> <<"n", "e", "g", "a", "t", "i", "v", "e", " ", "b", "e", "h", "a", "v", "i", "o", "r">>,
     category |-> <<"h", "e", "a", "l", "t", "h">>,
     moodHint |-> <<"g", "u", "i", "l", "t", "y">>,
     sentiment |-> <<"n", "e", "g", "a", "t", "i", "v", "e">>],
    [patterns |-> <<
        <<"d", "r", "i", "n", "k", " ", "t", "o", "o", " ", "m", "u", "c", "h">>,
        <<"g", "o", "t", " ", "d", "r", "u", "n", "k">>,
        <<"b", "i", "n", "g", "e", " ", "d", "r", "i", "n", "k">>,
        <<"h", "u", "n", "g", "o", "v", "e", "r">> >>,
     activity |-> <<"d", "r", "i", "n", "k", " ", "a", "l", "c", "o", "h", "o", "l">>,
     type |-> <<"n", "e", "g", "a", "t", "i", "v", "e", " ", "b", "e", "h", "a", "v", "i", "o", "r">>,
     category |-> <<"h", "e", "a", "l", "t", "h">>,
     moodHint |-> <<"r", "e", "g", "r", "e", "t", "f", "u", "l">>,
     sentiment |-> <<"n", "e", "g", "a", "t", "i", "v", "e">>],
    [patterns |-> <<
        <<"p", "a", "n", "i", "c", " ", "a", "t", "t", "a", "c", "k">>,
        <<"a", "n", "x", "i", "e", "t", "y", " ", "a", "t", "t", "a", "c", "k">>,
        <<"p", "a", "n", "i", "c">> >>,
     activity |-> <<"p", "a", "n", "i", "c", " ", "a", "t", "t", "a", "c", "k">>,
     type |-> <<"e", "m", "o", "t", "i", "o", "n", "a", "l", " ", "e", "v", "e", "n", "t">>,
     category |-> <<"m", "e", "n", "t", "a", "l", " ", "h", "e", "a", "l", "t", "h">>,
     moodHint |-> <<"a", "n", "x", "i", "o", "u", "s">>,
     sentiment |-> <<"n", "e", "g", "a", "t", "i", "v", "e">>],
    [patterns |-> <<
        <<"c", "r", "y">>, <<"c", "r", "i", "e", "d">>,
        <<"c", "r", "y", "i", "n", "g">>,
        <<"b", "r", "e", "a", "k", "d", "o", "w", "n">> >>,
     activity |-> <<"c", "r", "y">>,
     type |-> <<"e", "m", "o", "t", "i", "o", "n", "a", "l", " ", "e", "v", "e", "n", "t">>,
     category |-> <<"m", "e", "n", "t", "a", "l", " ", "h", "e", "a", "l", "t", "h">>,
     moodHint |-> <<"s", "a", "d">>,
     sentiment |-> <<"n", "e", "g", "a", "t", "i", "v", "e">>],
    [patterns |-> <<
        <<"d", "e", "p", "r", "e", "s", "s", "e", "d">>,
        <<"d", "e", "p", "r", "e", "s", "s", "i", "o", "n">>,
        <<"h", "o", "p", "e", "l", "e", "s", "s">> >>,
     activity |-> <<"f", "e", "e", "l", " ", "d", "e", "p", "r", "e", "s", "s", "e", "d">>,
     type |-> <<"e", "m", "o", "t", "i", "o", "n", "a", "l", " ", "e", "v", "e", "n", "t">>,
     category |-> <<"m", "e", "n", "t", "a", "l", " ", "h", "e", "a", "l", "t", "h">>,
     moodHint |-> <<"s", "a", "d">>,
     sentiment |-> <<"n", "e", "g", "a", "t", "i", "v", "e">>],
    [patterns |-> <<
        <<"m", "o", "m", " ", "m", "a", "d">>,
        <<"m", "o", "m", " ", "a", "n", "g", "r", "y">>,
        <<"m", "o", "m", " ", "y", "e", "l", "l", "e", "d">>,
        <<"m", "o", "t", "h", "e", "r", " ", "a", "n", "g", "r", "y">>,
        <<"m", "a", "s", "t", "i", "f", "f", "s", " ", "o", "n", " ", "m", "e">>,
        <<"p", "a", "r", "e", "n", "t", " ", "a", "n", "g", "r", "y">>,
        <<"p", "a", "r", "e", "n", "t", "s", " ", "m", "a", "d">> >>,
     activity |-> <<"f", "a", "m", "i", "l", "y", " ", "c", "o", "n", "f", "l", "i", "c", "t">>,
     type |-> <<"n", "e", "g", "a", "t", "i", "v", "e", " ", "b", "e", "h", "a", "v", "i", "o", "r">>,
     category |-> <<"f", "a", "m", "i", "l", "y">>,
     moodHint |-> <<"s", "t", "r", "e", "s", "s", "e", "d">>,
     sentiment |-> <<"n", "e", "g", "a", "t", "i", "v", "e">>],
    [patterns |-> <<
        <<"d", "a", "d", " ", "m", "a", "d">>,
        <<"d", "a", "d", " ", "a", "n", "g", "r", "y">>,
        <<"f", "a", "t", "h", "e", "r", " ", "a", "n", "g", "r", "y">>,
        <<"f", "a", "t", "h", "e", "r", " ", "m", "a", "d">> >>,
     activity |-> <<"f", "a", "m", "i", "l", "y", " ", "c", "o", "n", "f", "l", "i", "c", "t">>,
     type |-> <<"n", "e", "g", "a", "t", "i", "v", "e", " ", "b", "e", "h", "a", "v", "i", "o", "r">>,
     category |-> <<"f", "a", "m", "i", "l", "y">>,
     moodHint |-> <<"s", "t", "r", "e", "s", "s", "e", "d">>,
     sentiment |-> <<"n", "e", "g", "a", "t", "i", "v", "e">>],
    [patterns |-> <<
        <<"g", "r", "o", "u", "n", "d", "e", "d">>,
        <<"i", "n", " ", "t", "r", "o", "u", "b", "l", "e">>,
        <<"g", "o", "t", " ", "i", "n", " ", "t", "r", "o", "u", "b", "l", "e">> >>,
     activity |-> <<"g", "e", "t", " ", "i", "n", " ", "t", "r", "o", "u", "b", "l", "e">>,
     type |-> <<"e", "m", "o", "t", "i", "o", "n", "a", "l", " ", "e", "v", "e", "n", "t">>,
     category |-> <<"f", "a", "m", "i", "l", "y">>,
     moodHint |-> <<"s", "t", "r", "e", "s", "s", "e", "d">>,
     sentiment |-> <<"n", "e", "g", "a", "t", "i", "v", "e">>],
    [patterns |-> <<
        <<"r", "a", "n">>, <<"r", "u", "n">>,
        <<"r", "u", "n", "n", "i", "n", "g">>, <<"j", "o", "g">>,
        <<"j", "o", "g", "g", "i", "n", "g">> >>,
     activity |-> <<"r", "u", "n">>,
     type |-> <<"p", "o", "s", "i", "t", "i", "v", "e", " ", "h", "a", "b", "i", "t">>,
     category |-> <<"e", "x", "e", "r", "c", "i", "s", "e">>,
     moodHint |-> <<>>,
     sentiment |-> <<"p", "o", "s", "i", "t", "i", "v", "e">>],
    [patterns |-> <<
        <<"w", "a", "l", "k">>, <<"w", "a", "l", "k", "i", "n", "g">>,
        <<"w", "a", "l", "k", "e", "d">> >>,
     activity |-> <<"w", "a", "l", "k">>,
     type |-> <<"p", "o", "s", "i", "t", "i", "v", "e", " ", "h", "a", "b", "i", "t">>,
     category |-> <<"e", "x", "e", "r", "c", "i", "s", "e">>,
     moodHint |-> <<>>,
     sentiment |-> <<"p", "o", "s", "i", "t", "i", "v", "e">>],
    [patterns |-> <<
        <<"s", "w", "i", "m">>, <<"s", "w", "a", "m">>,
        <<"s", "w", "i", "m", "m", "i", "n", "g">> >>,
     activity |-> <<"s", "w", "i", "m">>,
     type |-> <<"p", "o", "s", "i", "t", "i", "v", "e", " ", "h", "a", "b", "i", "t">>,
     category |-> <<"e", "x", "e", "r", "c", "i", "s", "e">>,
     moodHint |-> <<>>,
     sentiment |-> <<"p", "o", "s", "i", "t", "i", "v", "e">>],
    [patterns |-> <<
        <<"g", "y", "m">>, <<"w", "o", "r", "k", "o", "u", "t">>,
        <<"w", "o", "r", "k", " ", "o", "u", "t">>,
        <<"e", "x", "e", "r", "c", "i", "s", "e", "d">>,
        <<"l", "i", "f", "t", " ", "w", "e", "i", "g", "h", "t", "s">> >>,
     activity |-> <<"w", "o", "r", "k", "o", "u", "t">>,
     type |-> <<"p", "o", "s", "i", "t", "i", "v", "e", " ", "h", "a", "b", "i", "t">>,
     category |-> <<"e", "x", "e", "r", "c", "i", "s", "e">>,
     moodHint |-> <<>>,
     sentiment |-> <<"p", "o", "s", "i", "t", "i", "v", "e">>],
    [patterns |-> <<
        <<"y", "o", "g", "a">>,
        <<"s", "t", "r", "e", "t", "c", "h", "i", "n", "g">>,
        <<"s", "t", "r", "e", "t", "c", "h", "e", "d">> >>,
     activity |-> <<"y", "o", "g", "a">>,
     type |-> <<"p", "o", "s", "i", "t", "i", "v", "e", " ", "h", "a", "b", "i", "t">>,
     category |-> <<"m", "i", "n", "d", "f", "u", "l", "n", "e", "s", "s">>,
     moodHint |-> <<>>,
     sentiment |-> <<"p", "o", "s", "i", "t", "i", "v", "e">>],
    [patterns |-> <<
        <<"m", "e", "d", "i", "t", "a", "t">>,
        <<"m", "i", "n", "d", "f", "u", "l">>,
        <<"m", "e", "d", "i", "t", "a", "t", "i", "o", "n">> >>,
     activity |-> <<"m", "e", "d", "i", "t", "a", "t", "e">>,
     type |-> <<"p", "o", "s", "i", "t", "i", "v", "e", " ", "h", "a", "b", "i", "t">>,
     category |-> <<"m", "i", "n", "d", "f", "u", "l", "n", "e", "s", "s">>,
     moodHint |-> <<>>,
     sentiment |-> <<"p", "o", "s", "i", "t", "i", "v", "e">>],
    [patterns |-> <<
        <<"j", "o", "u", "r", "n", "a", "l">>,
        <<"w", "r", "o", "t", "e", " ", "i", "n", " ", "j", "o", "u", "r", "n", "a", "l">>,
        <<"j", "o", "u", "r", "n", "a", "l", "i", "n", "g">> >>,
     activity |-> <<"j", "o", "u", "r", "n", "a", "l">>,
     type |-> <<"p", "o", "s", "i", "t", "i", "v", "e", " ", "h", "a", "b", "i", "t">>,
     category |-> <<"s", "e", "l", "f", " ", "c", "a", "r", "e">>,
     moodHint |-> <<>>,
     sentiment |-> <<"p", "o", "s", "i", "t", "i", "v", "e">>],
    [patterns |-> <<
        <<"r", "e", "a", "d">>, <<"r", "e", "a", "d", "i", "n", "g">>,
        <<"s", "t", "u", "d", "i", "e", "d">>, <<"s", "t", "u", "d", "y">> >>,
     activity |-> <<"r", "e", "a", "d">>,
     type |-> <<"p", "o", "s", "i", "t", "i", "v", "e", " ", "h", "a", "b", "i", "t">>,
     category |-> <<"p", "r", "o", "d", "u", "c", "t", "i", "v", "i", "t", "y">>,
     moodHint |-> <<>>,
     sentiment |-> <<"p", "o", "s", "i", "t", "i", "v", "e">>],
    [patterns |-> <<
        <<"f", "i", "n", "i", "s", "h">>,
        <<"f", "i", "n", "i", "s", "h", "e", "d">>,
        <<"c", "o", "m", "p", "l", "e", "t", "e", "d">>,
        <<"c", "o", "m", "p", "l", "e", "t", "e">> >>,
     activity |-> <<"c", "o", "m", "p", "l", "e", "t", "e", " ", "t", "a", "s", "k">>,
     type |-> <<"p", "o", "s", "i", "t", "i", "v", "e", " ", "h", "a", "b", "i", "t">>,
     category |-> <<"p", "r", "o", "d", "u", "c", "t", "i", "v", "i", "t", "y">>,
     moodHint |-> <<>>,
     sentiment |-> <<"p", "o", "s", "i", "t", "i", "v", "e">>],
    [patterns |-> <<
        <<"c", "l", "e", "a", "n">>, <<"c", "l", "e", "a", "n", "e", "d">>,
        <<"t", "i", "d", "y">>,
        <<"o", "r", "g", "a", "n", "i", "z", "e", "d">> >>,
     activity |-> <<"c", "l", "e", "a", "n">>,
     type |-> <<"p", "o", "s", "i", "t", "i", "v", "e", " ", "h", "a", "b", "i", "t">>,
     category |-> <<"p", "e", "r", "s", "o", "n", "a", "l", " ", "g", "r", "o", "w", "t", "h">>,
     moodHint |-> <<>>,
     sentiment |-> <<"p", "o", "s", "i", "t", "i", "v", "e">>],
    [patterns |-> <<
        <<"s", "l", "e", "e", "p">>, <<"s", "l", "e", "p", "t">>,
        <<"n", "a", "p">>, <<"n", "a", "p", "p", "e", "d">> >>,
     activity |-> <<"s", "l", "e", "e", "p">>,
     type |-> <<"p", "o", "s", "i", "t", "i", "v", "e", " ", "h", "a", "b", "i", "t">>,
     category |-> <<"s", "l", "e", "e", "p">>,
     moodHint |-> <<>>,
     sentiment |-> <<"n", "e", "u", "t", "r", "a", "l">>],
    [patterns |-> <<
        <<"w", "a", "t", "e", "r">>,
        <<"d", "r", "a", "n", "k", " ", "w", "a", "t", "e", "r">>,
        <<"h", "y", "d", "r", "a", "t", "i", "o", "n">>,
        <<"h", "y", "d", "r", "a", "t", "e", "d">> >>,
     activity |-> <<"d", "r", "i", "n", "k", " ", "w", "a", "t", "e", "r">>,
     type |-> <<"p", "o", "s", "i", "t", "i", "v", "e", " ", "h", "a", "b", "i", "t">>,
     category |-> <<"h", "y", "d", "r", "a", "t", "i", "o", "n">>,
     moodHint |-> <<>>,
     sentiment |-> <<"p", "o", "s", "i", "t", "i", "v", "e">>],
    [patterns |-> <<
        <<"e", "a", "t">>, <<"a", "t", "e">>, <<"f", "o", "o", "d">>,
        <<"m", "e", "a", "l">>, <<"s", "a", "l", "a", "d">>,
        <<"l", "u", "n", "c", "h">>, <<"d", "i", "n", "n", "e", "r">>,
        <<"b", "r", "e", "a", "k", "f", "a", "s", "t">> >>,
     activity |-> <<"e", "a", "t">>,
     type |-> <<"p", "o", "s", "i", "t", "i", "v", "e", " ", "h", "a", "b", "i", "t">>,
     category |-> <<"n", "u", "t", "r", "i", "t", "i", "o", "n">>,
     moodHint |-> <<>>,
     sentiment |-> <<"n", "e", "u", "t", "r", "a", "l">>]
  >>

triggerPatterns ==
  <<
    [patterns |-> <<
        <<"m", "o", "m">>, <<"m", "o", "t", "h", "e", "r">>,
        <<"m", "o", "m", " ", "a", "n", "g", "r", "y">>,
        <<"m", "o", "m", " ", "m", "a", "d">>,
        <<"m", "a", "s", "t", "i", "f", "f", "s", " ", "o", "n", " ", "m", "e">> >>,
     trigger |-> <<"m", "o", "m", " ", "u", "p", "s", "e", "t">>],
    [patterns |-> <<
        <<"d", "a", "d">>, <<"f", "a", "t", "h", "e", "r">> >>,
     trigger |-> <<"d", "a", "d", " ", "u", "p", "s", "e", "t">>],
    [patterns |-> <<
        <<"b", "e", "c", "a", "u", "s", "e">>, <<"c", "a", "u", "s", "e">>,
        <<"s", "i", "n", "c", "e">> >>,
     trigger |-> <<"s", "t", "a", "t", "e", "d", " ", "r", "e", "a", "s", "o", "n">>],
    [patterns |-> <<
        <<"d", "e", "a", "d", "l", "i", "n", "e">>, <<"d", "u", "e">> >>,
     trigger |-> <<"d", "e", "a", "d", "l", "i", "n", "e", " ", "p", "r", "e", "s", "s", "u", "r", "e">>],
    [patterns |-> <<
        <<"t", "i", "r", "e", "d">>,
        <<"e", "x", "h", "a", "u", "s", "t", "e", "d">>,
        <<"n", "o", " ", "e", "n", "e", "r", "g", "y">> >>,
     trigger |-> <<"f", "a", "t", "i", "g", "u", "e">>],
    [patterns |-> <<
        <<"s", "t", "r", "e", "s", "s", "e", "d">>,
        <<"a", "n", "x", "i", "o", "u", "s">>,
        <<"w", "o", "r", "r", "i", "e", "d">> >>,
     trigger |-> <<"s", "t", "r", "e", "s", "s">>],
    [patterns |-> <<
        <<"b", "o", "r", "e", "d">>, <<"b", "o", "r", "i", "n", "g">> >>,
     trigger |-> <<"b", "o", "r", "e", "d", "o", "m">>]
  >>

moodPatterns ==
  <<
    [moods |-> <<
        <<"h", "a", "p", "p", "y">>, <<"g", "r", "e", "a", "t">>,
        <<"a", "m", "a", "z", "i", "n", "g">> >>,
     patterns |-> <<
        <<"h", "a", "p", "p", "y">>, <<"g", "r", "e", "a", "t">>,
        <<"a", "m", "a", "z", "i", "n", "g">>,
        <<"w", "o", "n", "d", "e", "r", "f", "u", "l">>,
        <<"f", "a", "n", "t", "a", "s", "t", "i", "c">>,
        <<"a", "w", "e", "s", "o", "m", "e">>,
        <<"e", "x", "c", "i", "t", "e", "d">>, <<"j", "o", "y">> >>],
    [moods |-> <<
        <<"p", "r", "o", "u", "d">>,
        <<"a", "c", "c", "o", "m", "p", "l", "i", "s", "h", "e", "d">> >>,
     patterns |-> <<
        <<"p", "r", "o", "u", "d">>,
        <<"a", "c", "c", "o", "m", "p", "l", "i", "s", "h", "e", "d">>,
        <<"a", "c", "h", "i", "e", "v", "e", "d">>,
        <<"s", "u", "c", "c", "e", "s", "s">>,
        <<"f", "i", "n", "a", "l", "l", "y">>,
        <<"f", "i", "n", "i", "s", "h", "e", "d">> >>],
    [moods |-> <<
        <<"c", "a", "l", "m">>, <<"r", "e", "l", "a", "x", "e", "d">> >>,
     patterns |-> <<
        <<"c", "a", "l", "m">>, <<"r", "e", "l", "a", "x", "e", "d">>,
        <<"p", "e", "a", "c", "e", "f", "u", "l">>,
        <<"s", "e", "r", "e", "n", "e">>, <<"c", "h", "i", "l", "l">>,
        <<"z", "e", "n">> >>],
    [moods |-> <<
        <<"e", "n", "e", "r", "g", "i", "z", "e", "d">>,
        <<"m", "o", "t", "i", "v", "a", "t", "e", "d">> >>,
     patterns |-> <<
        <<"e", "n", "e", "r", "g", "i", "z", "e", "d">>,
        <<"e", "n", "e", "r", "g", "e", "t", "i", "c">>,
        <<"m", "o", "t", "i", "v", "a", "t", "e", "d">>,
        <<"p", "u", "m", "p", "e", "d">>, <<"r", "e", "a", "d", "y">> >>],
    [moods |-> <<
        <<"g", "u", "i", "l", "t", "y">>,
        <<"a", "s", "h", "a", "m", "e", "d">> >>,
     patterns |-> <<
        <<"g", "u", "i", "l", "t", "y">>,
        <<"a", "s", "h", "a", "m", "e", "d">>,
        <<"s", "h", "o", "u", "l", "d", "n", "'", "t">>,
        <<"b", "a", "d", " ", "a", "b", "o", "u", "t">>,
        <<"r", "e", "g", "r", "e", "t">>,
        <<"m", "a", "s", "t", "i", "f", "f", "s", " ", "o", "n", " ", "m", "e">>,
        <<"m", "a", "d", " ", "a", "t", " ", "m", "e">>,
        <<"a", "n", "g", "r", "y", " ", "a", "t", " ", "m", "e">> >>],
    [moods |-> <<
        <<"s", "t", "r", "e", "s", "s", "e", "d">>,
        <<"a", "n", "x", "i", "o", "u", "s">> >>,
     patterns |-> <<
        <<"s", "t", "r", "e", "s", "s", "e", "d">>,
        <<"a", "n", "x", "i", "o", "u", "s">>,
        <<"w", "o", "r", "r", "i", "e", "d">>,
        <<"o", "v", "e", "r", "w", "h", "e", "l", "m", "e", "d">>,
        <<"n", "e", "r", "v", "o", "u", "s">>,
        <<"p", "r", "e", "s", "s", "u", "r", "e">> >>],
    [moods |-> <<
        <<"s", "a", "d">>, <<"d", "e", "p", "r", "e", "s", "s", "e", "d">> >>,
     patterns |-> <<
        <<"s", "a", "d">>, <<"d", "e", "p", "r", "e", "s", "s", "e", "d">>,
        <<"d", "o", "w", "n">>, <<"h", "o", "p", "e", "l", "e", "s", "s">>,
        <<"c", "r", "y", "i", "n", "g">>, <<"c", "r", "y">>,
        <<"t", "e", "a", "r", "s">> >>],
    [moods |-> <<
        <<"a", "n", "g", "r", "y">>,
        <<"f", "r", "u", "s", "t", "r", "a", "t", "e", "d">> >>,
     patterns |-> <<
        <<"a", "n", "g", "r", "y">>,
        <<"f", "r", "u", "s", "t", "r", "a", "t", "e", "d">>,
        <<"m", "a", "d">>, <<"f", "u", "r", "i", "o", "u", "s">>,
        <<"a", "n", "n", "o", "y", "e", "d">>,
        <<"i", "r", "r", "i", "t", "a", "t", "e", "d">> >>],
    [moods |-> <<
        <<"t", "i", "r", "e", "d">>,
        <<"e", "x", "h", "a", "u", "s", "t", "e", "d">> >>,
     patterns |-> <<
        <<"t", "i", "r", "e", "d">>,
        <<"e", "x", "h", "a", "u", "s", "t", "e", "d">>,
        <<"d", "r", "a", "i", "n", "e", "d">>,
        <<"s", "l", "e", "e", "p", "y">>,
        <<"f", "a", "t", "i", "g", "u", "e">> >>],
    [moods |-> <<
        <<"d", "i", "s", "g", "u", "s", "t", "e", "d">>,
        <<"d", "i", "s", "a", "p", "p", "o", "i", "n", "t", "e", "d">> >>,
     patterns |-> <<
        <<"d", "i", "s", "g", "u", "s", "t", "i", "n", "g">>,
        <<"d", "i", "s", "g", "u", "s", "t", "e", "d">>,
        <<"d", "i", "s", "a", "p", "p", "o", "i", "n", "t", "e", "d">>,
        <<"f", "a", "i", "l", "u", "r", "e">>, <<"g", "r", "o", "s", "s">> >>]
  >>

positiveWords ==
  <<
    <<"h", "a", "p", "p", "y">>, <<"g", "r", "e", "a", "t">>,
    <<"g", "o", "o", "d">>, <<"a", "m", "a", "z", "i", "n", "g">>,
    <<"w", "o", "n", "d", "e", "r", "f", "u", "l">>,
    <<"p", "r", "o", "u", "d">>,
    <<"a", "c", "c", "o", "m", "p", "l", "i", "s", "h", "e", "d">>,
    <<"e", "x", "c", "i", "t", "e", "d">>, <<"l", "o", "v", "e">>,
    <<"e", "n", "j", "o", "y">>, <<"f", "i", "n", "a", "l", "l", "y">>,
    <<"s", "u", "c", "c", "e", "s", "s">>,
    <<"a", "c", "h", "i", "e", "v", "e", "d">>,
    <<"f", "e", "e", "l", " ", "g", "o", "o", "d">>,
    <<"f", "e", "e", "l", "s", " ", "g", "o", "o", "d">> >>

negativeWords ==
  <<
    <<"b", "a", "d">>, <<"s", "a", "d">>, <<"a", "n", "g", "r", "y">>,
    <<"m", "a", "d">>, <<"s", "t", "r", "e", "s", "s", "e", "d">>,
    <<"a", "n", "x", "i", "o", "u", "s">>,
    <<"w", "o", "r", "r", "i", "e", "d">>, <<"g", "u", "i", "l", "t", "y">>,
    <<"a", "s", "h", "a", "m", "e", "d">>, <<"f", "a", "i", "l">>,
    <<"f", "a", "i", "l", "u", "r", "e">>,
    <<"d", "i", "s", "g", "u", "s", "t", "i", "n", "g">>,
    <<"h", "a", "t", "e">>, <<"t", "e", "r", "r", "i", "b", "l", "e">>,
    <<"a", "w", "f", "u", "l">>, <<"h", "o", "r", "r", "i", "b", "l", "e">>,
    <<"m", "a", "s", "t", "i", "f", "f", "s", " ", "o", "n", " ", "m", "e">>,
    <<"c", "o", "n", "f", "l", "i", "c", "t">>, <<"a", "r", "g", "u", "e">>,
    <<"s", "k", "i", "p">>,
    <<"p", "r", "o", "c", "r", "a", "s", "t", "i", "n", "a", "t", "e">>,
    <<"p", "a", "n", "i", "c">>, <<"c", "r", "y">> >>

tagRules ==
  <<
    [patterns |-> <<
        <<"m", "o", "r", "n", "i", "n", "g">> >>,
     tag |-> <<"m", "o", "r", "n", "i", "n", "g">>],
    [patterns |-> <<
        <<"a", "f", "t", "e", "r", "n", "o", "o", "n">> >>,
     tag |-> <<"a", "f", "t", "e", "r", "n", "o", "o", "n">>],
    [patterns |-> <<
        <<"e", "v", "e", "n", "i", "n", "g">>, <<"n", "i", "g", "h", "t">> >>,
     tag |-> <<"e", "v", "e", "n", "i", "n", "g">>],
    [patterns |-> <<
        <<"t", "o", "d", "a", "y">> >>,
     tag |-> <<"t", "o", "d", "a", "y">>],
    [patterns |-> <<
        <<"y", "e", "s", "t", "e", "r", "d", "a", "y">> >>,
     tag |-> <<"y", "e", "s", "t", "e", "r", "d", "a", "y">>],
    [patterns |-> <<
        <<"w", "e", "e", "k", "e", "n", "d">> >>,
     tag |-> <<"w", "e", "e", "k", "e", "n", "d">>],
    [patterns |-> <<
        <<"h", "o", "m", "e">> >>,
     tag |-> <<"h", "o", "m", "e">>],
    [patterns |-> <<
        <<"s", "c", "h", "o", "o", "l">> >>,
     tag |-> <<"s", "c", "h", "o", "o", "l">>],
    [patterns |-> <<
        <<"w", "o", "r", "k">> >>,
     tag |-> <<"w", "o", "r", "k">>],
    [patterns |-> <<
        <<"g", "y", "m">> >>,
     tag |-> <<"g", "y", "m">>],
    [patterns |-> <<
        <<"o", "u", "t", "d", "o", "o", "r">>,
        <<"o", "u", "t", "s", "i", "d", "e">> >>,
     tag |-> <<"o", "u", "t", "d", "o", "o", "r">>],
    [patterns |-> <<
        <<"a", "l", "o", "n", "e">>,
        <<"b", "y", " ", "m", "y", "s", "e", "l", "f">> >>,
     tag |-> <<"a", "l", "o", "n", "e">>],
    [patterns |-> <<
        <<"f", "a", "m", "i", "l", "y">>, <<"m", "o", "m">>, <<"d", "a", "d">> >>,
     tag |-> <<"f", "a", "m", "i", "l", "y">>],
    [patterns |-> <<
        <<"f", "r", "i", "e", "n", "d">> >>,
     tag |-> <<"f", "r", "i", "e", "n", "d", "s">>],
    [patterns |-> <<
        <<"g", "r", "o", "u", "p">> >>,
     tag |-> <<"g", "r", "o", "u", "p">>],
    [patterns |-> <<
        <<"r", "e", "c", "u", "r", "r", "i", "n", "g">>,
        <<"a", "g", "a", "i", "n">>, <<"s", "t", "i", "l", "l">> >>,
     tag |-> <<"r", "e", "c", "u", "r", "r", "i", "n", "g">>],
    [patterns |-> <<
        <<"f", "i", "r", "s", "t", " ", "t", "i", "m", "e">>,
        <<"f", "i", "n", "a", "l", "l", "y">> >>,
     tag |-> <<"m", "i", "l", "e", "s", "t", "o", "n", "e">>]
  >>

categoryRules ==
  <<
    [patterns |-> <<
        <<"r", "u", "n">>, <<"g", "y", "m">>,
        <<"w", "o", "r", "k", "o", "u", "t">>, <<"s", "w", "i", "m">> >>,
     category |-> <<"e", "x", "e", "r", "c", "i", "s", "e">>],
    [patterns |-> <<
        <<"e", "a", "t">>, <<"f", "o", "o", "d">> >>,
     category |-> <<"n", "u", "t", "r", "i", "t", "i", "o", "n">>],
    [patterns |-> <<
        <<"s", "l", "e", "e", "p">>, <<"n", "a", "p">> >>,
     category |-> <<"s", "l", "e", "e", "p">>],
    [patterns |-> <<
        <<"m", "e", "d", "i", "t", "a", "t">>, <<"y", "o", "g", "a">> >>,
     category |-> <<"m", "i", "n", "d", "f", "u", "l", "n", "e", "s", "s">>],
    [patterns |-> <<
        <<"r", "e", "a", "d">>, <<"s", "t", "u", "d", "y">> >>,
     category |-> <<"e", "d", "u", "c", "a", "t", "i", "o", "n">>],
    [patterns |-> <<
        <<"a", "r", "g", "u", "e">>,
        <<"c", "o", "n", "f", "l", "i", "c", "t">> >>,
     category |-> <<"r", "e", "l", "a", "t", "i", "o", "n", "s", "h", "i", "p", "s">>],
    [patterns |-> <<
        <<"s", "k", "i", "p">>,
        <<"p", "r", "o", "c", "r", "a", "s", "t", "i", "n", "a", "t", "e">> >>,
     category |-> <<"p", "r", "o", "d", "u", "c", "t", "i", "v", "i", "t", "y">>],
    [patterns |-> <<
        <<"s", "c", "h", "o", "o", "l">>, <<"c", "l", "a", "s", "s">> >>,
     category |-> <<"e", "d", "u", "c", "a", "t", "i", "o", "n">>],
    [patterns |-> <<
        <<"w", "o", "r", "k">> >>,
     category |-> <<"w", "o", "r", "k">>],
    [patterns |-> <<
        <<"c", "r", "y">>, <<"p", "a", "n", "i", "c">>,
        <<"a", "n", "x", "i", "e", "t", "y">> >>,
     category |-> <<"m", "e", "n", "t", "a", "l", " ", "h", "e", "a", "l", "t", "h">>]
  >>

\* patterns.some(p => lower.includes(p))
someIncluded(patterns, lower) ==
  \E k \in 1..Len(patterns) : Contains(lower, patterns[k])

\* a scan that keeps the last rule with a phrase in the text
lastMatch(table, lower) ==
  LET hits == {i \in 1..Len(table) : someIncluded(table[i].patterns, lower)}
  IN IF hits = {} THEN 0 ELSE CHOOSE i \in hits : \A j \in hits : j <= i

\* the loop with `break`: the first rule, in table order, with a phrase in
\* the text; 0 when there is none
firstMatch(table, lower) ==
  LET hits == {i \in 1..Len(table) : someIncluded(table[i].patterns, lower)}
  IN IF hits = {} THEN 0 ELSE CHOOSE i \in hits : \A j \in hits : i <= j

sHabits == <<"h", "a", "b", "i", "t", "s">>
sNeutral == <<"n", "e", "u", "t", "r", "a", "l">>
sNegativeSentiment == <<"n", "e", "g", "a", "t", "i", "v", "e">>
sPositiveSentiment == <<"p", "o", "s", "i", "t", "i", "v", "e">>
sUnspecified ==
  <<"u", "n", "s", "p", "e", "c", "i", "f", "i", "e", "d", " ",
    "a", "c", "t", "i", "v", "i", "t", "y">>
sNeutralActivity ==
  <<"n", "e", "u", "t", "r", "a", "l", " ", "a", "c", "t", "i", "v", "i", "t", "y">>
sTriggerPrefix == <<"T", "r", "i", "g", "g", "e", "r", ":", " ">>

inferCategoryFromActivity(activity) ==
  LET i == firstMatch(categoryRules, ToLower(activity))
  IN IF i = 0 THEN sHabits ELSE categoryRules[i].category

inferMoodFromText(text) ==
  LET i == firstMatch(moodPatterns, ToLower(text))
  IN IF i = 0 THEN sNeutral ELSE moodPatterns[i].moods[1]

inferSentimentFromText(text) ==
  LET lower == ToLower(text)
      positiveCount ==
        Cardinality({k \in 1..Len(positiveWords) : Contains(lower, positiveWords[k])})
      negativeCount ==
        Cardinality({k \in 1..Len(negativeWords) : Contains(lower, negativeWords[k])})
  IN IF negativeCount > positiveCount THEN sNegativeSentiment
     ELSE IF positiveCount > negativeCount THEN sPositiveSentiment
     ELSE sNeutral

\* the tags of the rules with a phrase in the text, in the order of the rules
extractTags(text) ==
  LET lower == ToLower(text)
      hit == SelectSeq(tagRules, LAMBDA r : someIncluded(r.patterns, lower))
  IN [k \in 1..Len(hit) |-> hit[k].tag]

\* the unit alternatives of quantityRegex in their order; `s` tells whether a
\* final "s" is optional
unitAlternatives ==
  <<
    [stem |-> <<"k", "m">>, s |-> FALSE],
    [stem |-> <<"m", "i">>, s |-> FALSE],
    [stem |-> <<"m", "i", "l", "e", "s">>, s |-> FALSE],
    [stem |-> <<"m", "i", "n", "u", "t", "e">>, s |-> TRUE],
    [stem |-> <<"m", "i", "n">>, s |-> TRUE],
    [stem |-> <<"h", "o", "u", "r">>, s |-> TRUE],
    [stem |-> <<"h", "r">>, s |-> TRUE],
    [stem |-> <<"p", "a", "g", "e">>, s |-> TRUE],
    [stem |-> <<"g", "l", "a", "s", "s", "e">>, s |-> TRUE],
    [stem |-> <<"t", "i", "m", "e">>, s |-> TRUE],
    [stem |-> <<"r", "e", "p">>, s |-> TRUE],
    [stem |-> <<"s", "e", "t">>, s |-> TRUE],
    [stem |-> <<"c", "u", "p">>, s |-> TRUE],
    [stem |-> <<"d", "a", "y">>, s |-> TRUE],
    [stem |-> <<"w", "e", "e", "k">>, s |-> TRUE]
  >>

sMinutes == <<"m", "i", "n", "u", "t", "e", "s">>
sHours == <<"h", "o", "u", "r", "s">>
sMiles == <<"m", "i", "l", "e", "s">>

IsDigit(c) == DigitVal(c) >= 0

\* the position after the run of digits that starts at i
RECURSIVE digitsEnd(_, _)
digitsEnd(s, i) ==
  IF i <= Len(s) /\ IsDigit(s[i]) THEN digitsEnd(s, i + 1) ELSE i

\* the position after the white space that starts at i
RECURSIVE spacesEnd(_, _)
spacesEnd(s, i) ==
  IF i <= Len(s) /\ s[i] = " " THEN spacesEnd(s, i + 1) ELSE i

StartsAt(s, i, word) ==
  i + Len(word) - 1 <= Len(s) /\ SubSeq(s, i, i + Len(word) - 1) = word

\* the text the unit group matches at i: the first alternative that fits,
\* with its optional "s" when the text has it; <<>> when none fits
unitAt(s, i) ==
  LET fits == {k \in 1..Len(unitAlternatives) : StartsAt(s, i, unitAlternatives[k].stem)}
  IN IF fits = {} THEN <<>>
     ELSE LET a == unitAlternatives[CHOOSE k \in fits : \A j \in fits : k <= j]
              e == i + Len(a.stem)
          IN IF a.s /\ e <= Len(s) /\ s[e] = "s" THEN a.stem \o <<"s">> ELSE a.stem

\* /(\d+(?:\.\d+)?)\s*(unit)/ tried at position i: the number and the unit
\* matched, unit <<>> when the expression does not match there
matchAt(s, i) ==
  LET d == digitsEnd(s, i)
      hasFraction == d + 1 <= Len(s) /\ s[d] = "." /\ IsDigit(s[d + 1])
      f == IF hasFraction THEN digitsEnd(s, d + 1) ELSE d
  IN [whole |-> SubSeq(s, i, d - 1),
      fraction |-> IF hasFraction THEN SubSeq(s, d + 1, f - 1) ELSE <<>>,
      unit |-> unitAt(s, spacesEnd(s, f))]

\* lowerText.match(quantityRegex): the leftmost match; unit <<>> when null
quantityMatch(s) ==
  LET starts == {i \in 1..Len(s) : IsDigit(s[i]) /\ matchAt(s, i).unit # <<>>}
  IN IF starts = {} THEN [whole |-> <<>>, fraction |-> <<>>, unit |-> <<>>]
     ELSE matchAt(s, CHOOSE i \in starts : \A j \in starts : i <= j)

\* parseFloat(match[1]): the number, with its fraction digits when it has any
matchedNumber(m) ==
  IF m.fraction = <<>> THEN JNum(ParseDigits(m.whole, 0))
  ELSE [num |-> ParseDigits(m.whole, 0), fraction |-> m.fraction]

\* min/mins -> minutes, hr/hrs -> hours, mi -> miles
canonicalUnit(unit) ==
  CASE unit \in {<<"m", "i", "n">>, <<"m", "i", "n", "s">>} -> sMinutes
    [] unit \in {<<"h", "r">>, <<"h", "r", "s">>} -> sHours
    [] unit = <<"m", "i">> -> sMiles
    [] OTHER -> unit

\* a classifier whose quantity and unit are always null
fallbackQuantityNone(lower) == [quantity |-> JNull, unit |-> JNull]

\* quantity and unit of the fallback classifier
fallbackQuantity(lower) ==
  LET m == quantityMatch(lower)
  IN IF m.unit = <<>> THEN [quantity |-> JNull, unit |-> JNull]
     ELSE [quantity |-> matchedNumber(m), unit |-> JStr(canonicalUnit(m.unit))]

\* the record the fallback classifier returns, given the behaviour rule r and
\* the trigger rule tp that matched (0 for none) and the quantity q it found
fallbackRecord(text, r, tp, q) ==
  [activity |-> JStr(IF r = 0 THEN sUnspecified ELSE behaviorPatterns[r].activity),
   category |-> JStr(IF r = 0 THEN sHabits ELSE behaviorPatterns[r].category),
   quantity |-> q.quantity,
   unit |-> q.unit,
   mood |-> OrNull(JStr(IF r # 0 /\ behaviorPatterns[r].moodHint # <<>>
                        THEN behaviorPatterns[r].moodHint
                        ELSE inferMoodFromText(text))),
   sentiment |-> JStr(IF r = 0 \/ behaviorPatterns[r].sentiment = sNeutral
                      THEN inferSentimentFromText(text)
                      ELSE behaviorPatterns[r].sentiment),
   notes |-> IF tp = 0 THEN JNull
             ELSE JStr(sTriggerPrefix \o triggerPatterns[tp].trigger),
   tags |-> JArr(extractTags(text)),
   type |-> JStr(IF r = 0 THEN sNeutralActivity ELSE behaviorPatterns[r].type),
   trigger |-> IF tp = 0 THEN JNull ELSE JStr(triggerPatterns[tp].trigger)]

enhancedFallbackParse(text) ==
  fallbackRecord(text,
                 firstMatch(behaviorPatterns, ToLower(text)),
                 firstMatch(triggerPatterns, ToLower(text)),
                 fallbackQuantity(ToLower(text)))

-----------------------------------------------------------------------------
(* POST /api/habits/parse: the oracle path and the handler *)

\* parsed.k of an object: undefined, which every test below treats as null,
\* when the object has no such key
Field(parsed, k) == IF k \in DOMAIN parsed THEN parsed[k] ELSE JNull

\* `x || y`
Or(x, y) == IF Truthy(x) THEN x ELSE y

\* the outcomes of the oracle call that leave no parsed object
NoObjectKinds == {"nojson", "malformed"}

\* an inner catch that goes on with an object that classifies nothing
parsedOfEmptyOnError(text, oracle) ==
  IF oracle.kind \in NoObjectKinds THEN [notes |-> JNull] ELSE oracle.object

\* `parsed` after the inner try/catch: the object of the response, and the
\* fallback classifier's record when the response holds no JSON object or
\* JSON.parse throws
parsedOf(text, oracle) ==
  IF oracle.kind \in NoObjectKinds THEN enhancedFallbackParse(text) ELSE oracle.object

\* inferCategoryFromActivity(parsed.activity || text) calls toLowerCase on a
\* truthy activity that is not a string
normaliseThrows(parsed) ==
  /\ ~Truthy(Field(parsed, "category"))
  /\ Truthy(Field(parsed, "activity"))
  /\ ~IsStr(Field(parsed, "activity"))

\* the record built from `parsed` when nothing throws
normalised(parsed, text) ==
  [activity |-> Or(Field(parsed, "activity"), JStr(sUnspecified)),
   category |->
     IF Truthy(Field(parsed, "category")) THEN Field(parsed, "category")
     ELSE JStr(inferCategoryFromActivity(
                 StrOf(Or(Field(parsed, "activity"), JStr(text))))),
   quantity |-> IF IsNum(Field(parsed, "quantity")) THEN Field(parsed, "quantity")
                ELSE JNull,
   unit |-> OrNull(Field(parsed, "unit")),
   mood |-> Or(Field(parsed, "mood"), JStr(inferMoodFromText(text))),
   sentiment |-> Or(Field(parsed, "sentiment"), JStr(inferSentimentFromText(text))),
   notes |-> OrNull(Field(parsed, "notes")),
   tags |-> IF IsArr(Field(parsed, "tags")) THEN Field(parsed, "tags")
            ELSE JArr(extractTags(text)),
   type |-> Or(Field(parsed, "type"), JStr(sNeutralActivity)),
   trigger |-> OrNull(Field(parsed, "trigger")),
   context |-> OrNull(Field(parsed, "context"))]

Threw == [threw |-> TRUE]

\* an outer try without its catch
catchRethrow(text) == Threw

\* the outer catch: the fallback classifier's record, as it is
catchFallback(text) == enhancedFallbackParse(text)

\* the return statement inside the outer try
normaliseOrCatch(parsed, text) ==
  IF normaliseThrows(parsed) THEN catchFallback(text) ELSE normalised(parsed, text)

parseHabitText(text, oracle) ==
  IF oracle.kind \in {"raises", "empty"} THEN catchFallback(text)
  ELSE normaliseOrCatch(parsedOf(text, oracle), text)

\* `!text || typeof text !== 'string'`
textMissing(text) == ~Truthy(text) \/ ~IsStr(text)

\* the 400 answer to a body without a text
ParseReject ==
  /\ fin.fn = "parse" /\ fout = NoCall
  /\ textMissing(fin.text)
  /\ fout' = [fn |-> "parse", status |-> 400]
  /\ UNCHANGED <<fin, appVars>>

\* the answer of the handler: 200 with the text and the record, 500 when
\* parseHabitText threw
parseAnswer(text, oracle, parsed) ==
  IF parsed = Threw
  THEN [fn |-> "parse", oracle |-> oracle, status |-> 500]
  ELSE [fn |-> "parse", oracle |-> oracle, status |-> 200,
        data |-> [rawText |-> text] @@ parsed]

\* the rest of the handler once the oracle call has ended one way or another
ParseClassify(oracle) ==
  /\ fin.fn = "parse" /\ fout = NoCall
  /\ ~textMissing(fin.text)
  /\ fout' = parseAnswer(fin.text, oracle, parseHabitText(fin.text.str, oracle))
  /\ UNCHANGED <<fin, appVars>>

-----------------------------------------------------------------------------
(* The classifier evaluated on its own *)

tRanMorning ==
  <<"R", "a", "n", " ", "5", " ", "k", "m", " ", "t", "h", "i",
    "s", " ", "m", "o", "r", "n", "i", "n", "g", ",", " ", "f",
    "e", "l", "t", " ", "e", "n", "e", "r", "g", "i", "z", "e",
    "d">>

tSkipRan ==
  <<"s", "k", "i", "p", " ", "c", "l", "a", "s", "s", ",", " ",
    "r", "a", "n">>

tHi ==
  <<"h", "i">>

tReadMins ==
  <<"r", "e", "a", "d", " ", "2", "0", " ", "m", "i", "n", "s">>

tMomMad ==
  <<"m", "o", "m", " ", "m", "a", "d">>

tGym ==
  <<"G", "y", "m", " ", "1", ".", "5", " ", "h", "r", "s">>

tCryMomRan ==
  <<"c", "r", "y", ",", " ", "m", "o", "m", " ", "m", "a", "d", ",", " ", "r", "a", "n">>

sSwim == <<"s", "w", "i", "m">>
sFive == <<"5">>

ParseTexts == {tRanMorning, tSkipRan, tHi, tReadMins, tMomMad, tGym, tCryMomRan}

\* the values of `text` in a request body: a text, no text, an empty text, a number
ParseBodies ==
  {JStr(t) : t \in ParseTexts} \cup {JNull, JStr(<<>>), JNum(5)}

\* the JSON objects the oracle answers with: every field is absent or present,
\* and activity and quantity are also present with a value of another type
OracleObjects ==
  [activity : {JNull, JStr(sSwim), JStr(<<>>), JNum(7)},
   category : {JNull, JStr(sOther)},
   quantity : {JNull, JNum(3), JStr(sFive)},
   unit : {JNull, JStr(sMiles)},
   mood : {JNull, JStr(sNeutral)},
   notes : {JNull, JStr(sOther)},
   sentiment : {JNull, JStr(sPositiveSentiment)},
   tags : {JNull, JArr(<<sSwim>>)},
   type : {JNull, JStr(sPositive)},
   trigger : {JNull, JStr(sOther)},
   context : {JNull, JStr(sOther)}]

\* the ways the oracle call ends: it raises, its response has no content, the
\* content holds no JSON object, the object does not parse, it parses
OracleOutcomes ==
  {[kind |-> k] : k \in {"raises", "empty", "nojson", "malformed"}}
    \cup {[kind |-> "object", object |-> o] : o \in OracleObjects}

InitParse ==
  /\ AppIdle
  /\ now = 0
  /\ tz = 0
  /\ fin \in {[fn |-> "parse", text |-> b] : b \in ParseBodies}
  /\ fout = NoCall

NextParse ==
  \/ ParseReject
  \/ \E oracle \in OracleOutcomes : ParseClassify(oracle)

SpecParse == InitParse /\ [][NextParse]_vars

-----------------------------------------------------------------------------
(* GET /api/habit-stacks: generateStackingSuggestions *)

StackWindowDays == 30
MinStackEntries == 3
MaxSuggestions == 5

\* orderBy: { date: 'asc' }; rows of one date stay in the order of the store
RECURSIVE orderByDateAsc(_)
orderByDateAsc(es) ==
  IF es = <<>> THEN <<>>
  ELSE LET k == CHOOSE i \in 1..Len(es) :
                  \A j \in 1..Len(es) :
                    es[i].date < es[j].date \/ (es[i].date = es[j].date /\ i <= j)
       IN <<es[k]>> \o orderByDateAsc(SubSeq(es, 1, k - 1) \o SubSeq(es, k + 1, Len(es)))

\* new Date() moved back by thirty days
thirtyDaysAgo(t) == t - StackWindowDays * TPD

\* db.habitEntry.findMany of the miner
stackWindow(es, t) ==
  orderByDateAsc(
    SelectSeq(es, LAMBDA e : /\ e.date >= thirtyDaysAgo(t)
                             /\ ContainsInsensitive(StrOf(e.type), sPositiveWord)))

\* [...new Set(xs)]: the first occurrences, in order
RECURSIVE unique(_)
unique(xs) ==
  IF xs = <<>> THEN <<>>
  ELSE <<Head(xs)>> \o unique(SelectSeq(Tail(xs), LAMBDA x : x # Head(xs)))

Elements(xs) == {xs[i] : i \in 1..Len(xs)}

RECURSIVE concatAll(_)
concatAll(seqs) ==
  IF seqs = <<>> THEN <<>> ELSE Head(seqs) \o concatAll(Tail(seqs))

\* the keys of dayGroups in the order they are created
dateKeys(es) == unique([i \in 1..Len(es) |-> ISODate(es[i].date)])

\* uniqueActivities of each day group: the activities of the entries of the
\* date, an entry without activity left out
dayGroups(es) ==
  LET keys == dateKeys(es)
      group(key) ==
        LET same == SelectSeq(es, LAMBDA e : ISODate(e.date) = key /\ Truthy(e.activity))
        IN unique([i \in 1..Len(same) |-> StrOf(same[i].activity)])
  IN [d \in 1..Len(keys) |-> group(keys[d])]

\* the pairs (a1, a2) of the two loops over one day's activities
RECURSIVE pairsOfDay(_)
pairsOfDay(acts) ==
  IF Len(acts) <= 1 THEN <<>>
  ELSE [j \in 1..(Len(acts) - 1) |-> <<Head(acts), acts[j + 1]>>] \o pairsOfDay(Tail(acts))

allPairs(days) == concatAll([d \in 1..Len(days) |-> pairsOfDay(days[d])])

\* activityCounts[a]: the days the activity is on
activityCount(days, a) ==
  Cardinality({d \in 1..Len(days) : a \in Elements(days[d])})

\* coOccurrences[a][b]: the days both activities are on
coOccurrence(days, a, b) ==
  Cardinality({d \in 1..Len(days) : a \in Elements(days[d]) /\ b \in Elements(days[d])})

\* the keys of coOccurrences in the order of their creation
outerKeys(pairs) ==
  unique(concatAll([k \in 1..Len(pairs) |-> pairs[k]]))

\* the keys of coOccurrences[a] in the order of their creation
innerKeys(pairs, a) ==
  LET having == SelectSeq(pairs, LAMBDA p : p[1] = a \/ p[2] = a)
  IN unique([k \in 1..Len(having) |-> IF having[k][1] = a THEN having[k][2] ELSE having[k][1]])

\* strength >= 0.5 && count >= 2, strength being count / least
qualifies(count, least) == 2 * count >= least /\ count >= 2

\* Math.round(strength * 100): halves round up
strengthPercent(count, least) == (200 * count + least) \div (2 * least)

sTipAfter ==
  <<"A", "f", "t", "e", "r", " ", "y", "o", "u", " ", "\"">>

sTipOften ==
  <<"\"", ",", " ", "y", "o", "u", " ", "o", "f", "t", "e", "n",
    " ", "d", "o", " ", "\"">>

sTipStack ==
  <<"\"", ".", " ", "S", "t", "a", "c", "k", " ", "t", "h", "e",
    "s", "e", " ", "f", "o", "r", " ", "b", "e", "t", "t", "e",
    "r", " ", "c", "o", "n", "s", "i", "s", "t", "e", "n", "c",
    "y", "!">>

\* one element of `suggestions`
suggestion(days, a, b) ==
  LET least == IF activityCount(days, a) <= activityCount(days, b)
               THEN activityCount(days, a) ELSE activityCount(days, b)
  IN [triggerHabit |-> a,
      linkedHabit |-> b,
      strength |-> strengthPercent(coOccurrence(days, a, b), least),
      tip |-> sTipAfter \o a \o sTipOften \o b \o sTipStack]

\* the suggestions pushed by the two loops over coOccurrences
candidates(days) ==
  LET pairs == allPairs(days)
      outer == outerKeys(pairs)
      least(a, b) == IF activityCount(days, a) <= activityCount(days, b)
                     THEN activityCount(days, a) ELSE activityCount(days, b)
      pushed(a) ==
        LET inner == SelectSeq(innerKeys(pairs, a),
                               LAMBDA b : qualifies(coOccurrence(days, a, b), least(a, b)))
        IN [k \in 1..Len(inner) |-> suggestion(days, a, inner[k])]
  IN concatAll([i \in 1..Len(outer) |-> pushed(outer[i])])

\* sort((a, b) => b.strength - a.strength): greatest strength first, equal
\* strengths in the order they had
RECURSIVE sortByStrength(_)
sortByStrength(ss) ==
  IF ss = <<>> THEN <<>>
  ELSE LET k == CHOOSE i \in 1..Len(ss) :
                  \A j \in 1..Len(ss) :
                    \/ ss[i].strength > ss[j].strength
                    \/ (ss[i].strength = ss[j].strength /\ i <= j)
       IN <<ss[k]>> \o sortByStrength(SubSeq(ss, 1, k - 1) \o SubSeq(ss, k + 1, Len(ss)))

\* the characters of the activity names, in the order of their code units
codeUnits ==
  <<" ", "-", "0", "1", "2", "3", "4", "5", "6", "7", "8", "9", "A", "B", "C", "D",
    "E", "F", "G", "H", "I", "J", "K", "L", "M", "N", "O", "P", "Q", "R", "S", "T",
    "U", "V", "W", "X", "Y", "Z", "a", "b", "c", "d", "e", "f", "g", "h", "i", "j",
    "k", "l", "m", "n", "o", "p", "q", "r", "s", "t", "u", "v", "w", "x", "y", "z">>

CharCode(c) == CHOOSE i \in 1..Len(codeUnits) : codeUnits[i] = c

\* the order of strings the default sort() uses
RECURSIVE strLess(_, _)
strLess(x, y) ==
  IF x = <<>> THEN y # <<>>
  ELSE IF y = <<>> THEN FALSE
  ELSE IF Head(x) = Head(y) THEN strLess(Tail(x), Tail(y))
  ELSE CharCode(Head(x)) < CharCode(Head(y))

\* [s.triggerHabit, s.linkedHabit].sort().join('-')
pairKey(s) ==
  IF strLess(s.linkedHabit, s.triggerHabit)
  THEN s.linkedHabit \o <<"-">> \o s.triggerHabit
  ELSE s.triggerHabit \o <<"-">> \o s.linkedHabit

\* the filter over seenPairs: a suggestion stays unless its key was seen
RECURSIVE unseen(_, _)
unseen(ss, seenPairs) ==
  IF ss = <<>> THEN <<>>
  ELSE IF pairKey(Head(ss)) \in seenPairs THEN unseen(Tail(ss), seenPairs)
  ELSE <<Head(ss)>> \o unseen(Tail(ss), seenPairs \cup {pairKey(Head(ss))})

\* slice(0, 5)
firstFive(ss) ==
  IF Len(ss) <= MaxSuggestions THEN ss ELSE SubSeq(ss, 1, MaxSuggestions)

generateStackingSuggestions(es, t) ==
  LET window == stackWindow(es, t)
  IN IF Len(window) < MinStackEntries THEN <<>>
     ELSE firstFive(unseen(sortByStrength(candidates(dayGroups(window))), {}))

-----------------------------------------------------------------------------
(* The habit-stack miner evaluated on its own *)

StackDaysDense == 3
StackDaysLong == 8
MaxLooseEntries == 4

sA == <<"a">>
sC == <<"c">>
sAB == <<"a", "-", "b">>
sBC == <<"b", "-", "c">>

StackNames == <<sAB, sC, sA, sBC>>

\* the day the miner runs on and the days before it
StackToday == StackWindowDays + StackDaysLong + 1
StackDate(d) == (StackToday - StackDaysLong - 1 + d) * TPD

stackEntry(activity, type, t) ==
  [newEntry(habitBody(JStr(sText), JStr(activity), JNull, JDate(t)), 0)
     EXCEPT !.type = type]

\* positive entries, one for each activity of each day
entriesOfDays(days) ==
  concatAll([d \in 1..Len(days) |->
               [k \in 1..Len(days[d]) |->
                  stackEntry(days[d][k], JStr(sPositive), StackDate(d))]])

\* a few days on which any of four activities are logged
DenseHistories ==
  LET daysOf == SUBSET Elements(StackNames)
      listed(S) == SelectSeq(StackNames, LAMBDA n : n \in S)
  IN {entriesOfDays([d \in 1..StackDaysDense |-> listed(f[d])]) :
        f \in [1..StackDaysDense -> daysOf]}

\* many days on which one, both or none of two activities are logged
LongHistories ==
  {entriesOfDays(f) : f \in [1..StackDaysLong -> {<<>>, <<sA>>, <<sC>>, <<sA, sC>>}]}

\* entries in any order of the store, some of another type, some older than
\* the thirty days, some at their very start
LooseEntries ==
  {stackEntry(a, ty, t) :
     a \in {sA, sC}, ty \in {JStr(sPositive), JNull},
     t \in {thirtyDaysAgo(StackToday * TPD) - 1, thirtyDaysAgo(StackToday * TPD),
            StackDate(StackDaysLong)}}

LooseHistories == UNION {[1..n -> LooseEntries] : n \in 0..MaxLooseEntries}

InitStack ==
  /\ AppIdle
  /\ now = StackToday * TPD
  /\ tz = 0
  /\ fin \in {[fn |-> "stacks", entries |-> h] :
               h \in DenseHistories \cup LongHistories \cup LooseHistories}
  /\ fout = NoCall

\* suggestions: await generateStackingSuggestions()
CallStacks ==
  /\ fin.fn = "stacks" /\ fout = NoCall
  /\ fout' = [fn |-> "stacks",
               suggestions |-> generateStackingSuggestions(fin.entries, now)]
  /\ UNCHANGED <<fin, appVars>>

NextStack == CallStacks

SpecStack == InitStack /\ [][NextStack]_vars

-----------------------------------------------------------------------------
(* Claims: the classifier *)

\* the handler has classified the text of the request
Classified == fout.fn = "parse" /\ "oracle" \in DOMAIN fout

\* C16: for every text and every outcome of the oracle call (it raises, it
\* answers nothing, text without JSON, malformed JSON, an object with any
\* subset of its fields), classification ends without throwing and its
\* record has an activity, a type and a sentiment that are not null
C16_ClassifyNeverFails ==
  Classified =>
    /\ fout.status = 200
    /\ ~IsNull(fout.data.activity)
    /\ ~IsNull(fout.data.type)
    /\ ~IsNull(fout.data.sentiment)

\* the oracle's object made the field defaults throw, and the text was
\* classified all the same
C16_Witness ==
  /\ Classified
  /\ fout.oracle.kind = "object"
  /\ normaliseThrows(fout.oracle.object)
  /\ fout.status = 200
  /\ fout.data.activity = JStr(<<"r", "u", "n">>)

\* the ten fields of a habit record
RecordFields ==
  {"activity", "type", "category", "quantity", "unit", "mood", "sentiment",
   "trigger", "notes", "tags"}

\* the oracle call raised, answered nothing, or answered text with no JSON
\* object that parses
OracleFailed ==
  Classified /\ fout.oracle.kind \in {"raises", "empty", "nojson", "malformed"}

\* C17: whenever the oracle call raises, returns no content, or returns text
\* without a parseable JSON object, the record returned for a text has exactly
\* the activity, type, category, quantity, unit, mood, sentiment, trigger,
\* notes and tags of the fallback classifier for that text, whichever the
\* kind of failure
C17_FailureGivesFallback ==
  OracleFailed =>
    /\ fout.status = 200
    /\ \A k \in RecordFields :
         /\ k \in DOMAIN fout.data
         /\ fout.data[k] = enhancedFallbackParse(fin.text.str)[k]

\* a response that did not parse, for a text with a trigger: the fallback's
\* record went through the field defaults
C17_Witness ==
  /\ OracleFailed
  /\ fout.oracle.kind = "malformed"
  /\ fin.text = JStr(tMomMad)
  /\ fout.data.trigger = JStr(<<"m", "o", "m", " ", "u", "p", "s", "e", "t">>)
  /\ fout.data.type = JStr(sNegative)

\* C18: when the oracle path succeeds but its record omits quantity, the
\* quantity/unit extraction is applied to the text as a backstop: a text with a
\* number followed by a known unit still yields that quantity and, the oracle
\* giving no unit either, the canonical unit
C18_QuantityBackstop ==
  (/\ Classified
   /\ fout.oracle.kind = "object"
   /\ IsNull(fout.oracle.object.quantity)
   /\ quantityMatch(ToLower(fin.text.str)).unit # <<>>)
  => LET q == fallbackQuantity(ToLower(fin.text.str))
     IN /\ fout.status = 200
        /\ fout.data.quantity = q.quantity
        /\ IsNull(fout.oracle.object.unit) => fout.data.unit = q.unit

\* rule i of the table has a phrase that occurs in the text, letter case aside
RuleApplies(i, text) ==
  \E k \in 1..Len(behaviorPatterns[i].patterns) :
    ContainsInsensitive(text, behaviorPatterns[i].patterns[k])

\* the answer is the fallback classifier's record as it returned it
FallbackAnswered == Classified /\ fout.oracle.kind = "raises" /\ fout.status = 200

-----------------------------------------------------------------------------
(* Claims: the habit-stack miner *)

\* the positive entries of the trailing thirty days
SpecifiedStackWindow ==
  {k \in 1..Len(fin.entries) :
     /\ fin.entries[k].date >= now - StackWindowDays * TPD
     /\ ContainsInsensitive(StrOf(fin.entries[k].type), sPositiveWord)}

\* the days of the window on which the activity is logged
DaysWith(a) ==
  {ISODate(fin.entries[k].date) : k \in {j \in SpecifiedStackWindow :
                                           fin.entries[j].activity = JStr(a)}}

StackActivities == {StrOf(fin.entries[k].activity) : k \in SpecifiedStackWindow}

\* co-occurrence day count >= 2, and the count over the smaller of the two
\* day counts >= 0.5
PairQualifies(a, b) ==
  LET together == Cardinality(DaysWith(a) \cap DaysWith(b))
      least == IF Cardinality(DaysWith(a)) <= Cardinality(DaysWith(b))
               THEN Cardinality(DaysWith(a)) ELSE Cardinality(DaysWith(b))
  IN together >= 2 /\ 2 * together >= least

PairSuggested(a, b) ==
  \E k \in 1..Len(fout.suggestions) :
    {fout.suggestions[k].triggerHabit, fout.suggestions[k].linkedHabit} = {a, b}

\* C20: the miner emits a suggestion for a pair of activities exactly when
\* their co-occurrence day count is >= 2 and that count divided by the smaller
\* of their day counts is >= 0.5, provided the window holds at least 3
\* positive entries (the result being the first five at most): two activities
\* together on 2 or more days are suggested, a pair together on 1 day never is
C20_SuggestedIffThreshold ==
  fout.fn = "stacks" =>
    \A a, b \in StackActivities :
      a # b =>
        /\ PairSuggested(a, b)
             => /\ Cardinality(SpecifiedStackWindow) >= MinStackEntries
                /\ PairQualifies(a, b)
        /\ (/\ Cardinality(SpecifiedStackWindow) >= MinStackEntries
            /\ PairQualifies(a, b)
            /\ Len(fout.suggestions) < MaxSuggestions)
             => PairSuggested(a, b)

\* the strength of a pair as a percent: co-occurrence days over the smaller of
\* the two day counts
PairStrength(a, b) ==
  LET together == Cardinality(DaysWith(a) \cap DaysWith(b))
      least == IF Cardinality(DaysWith(a)) <= Cardinality(DaysWith(b))
               THEN Cardinality(DaysWith(a)) ELSE Cardinality(DaysWith(b))
  IN (200 * together + least) \div (2 * least)

SuggestedPair(k) ==
  {fout.suggestions[k].triggerHabit, fout.suggestions[k].linkedHabit}

\* C21: the miner returns at most 5 suggestions, in descending order of
\* strength, each unordered pair of activities at most once; a qualifying pair
\* is left out only when 5 pairs of equal or greater strength are returned,
\* so two different pairs are never merged by the deduplication
C21_TopFiveDistinctPairs ==
  fout.fn = "stacks" =>
    LET n == Len(fout.suggestions) IN
    /\ n <= MaxSuggestions
    /\ \A i, j \in 1..n :
         i < j => /\ fout.suggestions[i].strength >= fout.suggestions[j].strength
                  /\ SuggestedPair(i) # SuggestedPair(j)
    /\ \A a, b \in StackActivities :
         (/\ a # b
          /\ Cardinality(SpecifiedStackWindow) >= MinStackEntries
          /\ PairQualifies(a, b)
          /\ ~PairSuggested(a, b))
         => /\ n = MaxSuggestions
            /\ \A k \in 1..n : fout.suggestions[k].strength >= PairStrength(a, b)

-----------------------------------------------------------------------------
(* GET /api/heatmap: the mood view and the sentiment view *)

HeatDays == 2
MaxHeatEntries == 3
DefaultRange == 30

\* moodScores of generateMoodHeatmap
moodScores ==
  <<
    [mood |-> <<"h", "a", "p", "p", "y">>, score |-> 5],
    [mood |-> <<"g", "r", "e", "a", "t">>, score |-> 5],
    [mood |-> <<"a", "m", "a", "z", "i", "n", "g">>, score |-> 5],
    [mood |-> <<"p", "r", "o", "u", "d">>, score |-> 5],
    [mood |-> <<"a", "c", "c", "o", "m", "p", "l", "i", "s", "h", "e", "d">>, score |-> 5],
    [mood |-> <<"e", "n", "e", "r", "g", "i", "z", "e", "d">>, score |-> 5],
    [mood |-> <<"g", "o", "o", "d">>, score |-> 4],
    [mood |-> <<"m", "o", "t", "i", "v", "a", "t", "e", "d">>, score |-> 4],
    [mood |-> <<"c", "a", "l", "m">>, score |-> 4],
    [mood |-> <<"r", "e", "l", "a", "x", "e", "d">>, score |-> 4],
    [mood |-> <<"n", "e", "u", "t", "r", "a", "l">>, score |-> 3],
    [mood |-> <<"i", "n", "d", "i", "f", "f", "e", "r", "e", "n", "t">>, score |-> 3],
    [mood |-> <<"t", "i", "r", "e", "d">>, score |-> 2],
    [mood |-> <<"s", "t", "r", "e", "s", "s", "e", "d">>, score |-> 2],
    [mood |-> <<"a", "n", "x", "i", "o", "u", "s">>, score |-> 2],
    [mood |-> <<"b", "o", "r", "e", "d">>, score |-> 2],
    [mood |-> <<"s", "a", "d">>, score |-> 1],
    [mood |-> <<"g", "u", "i", "l", "t", "y">>, score |-> 1],
    [mood |-> <<"a", "s", "h", "a", "m", "e", "d">>, score |-> 1],
    [mood |-> <<"b", "a", "d">>, score |-> 1],
    [mood |-> <<"a", "n", "g", "r", "y">>, score |-> 1],
    [mood |-> <<"f", "r", "u", "s", "t", "r", "a", "t", "e", "d">>, score |-> 1]
  >>

\* moodScores[mood], 0 for a mood the table does not have
moodScore(mood) ==
  IF \E i \in 1..Len(moodScores) : moodScores[i].mood = mood
  THEN moodScores[CHOOSE i \in 1..Len(moodScores) : moodScores[i].mood = mood].score
  ELSE 0

\* format(new Date(entry.date), 'yyyy-MM-dd'): the local calendar day
dateKey(t) == DayOf(t)

\* the keys of dayData in the order they are created
heatKeys(es) == unique([i \in 1..Len(es) |-> dateKey(es[i].date)])

entriesOfKey(es, k) == SelectSeq(es, LAMBDA e : dateKey(e.date) = k)

\* if (entry.mood && moodScores[entry.mood]): the moods pushed for one day
scoredMoods(es) ==
  LET scored == SelectSeq(es, LAMBDA e : Truthy(e.mood) /\ moodScore(StrOf(e.mood)) > 0)
  IN [i \in 1..Len(scored) |-> StrOf(scored[i].mood)]

RECURSIVE sumScores(_)
sumScores(moods) ==
  IF moods = <<>> THEN 0 ELSE moodScore(Head(moods)) + sumScores(Tail(moods))

occurrences(moods, m) == Len(SelectSeq(moods, LAMBDA x : x = m))

\* data.moods.sort((a, b) => count(b) - count(a))[0]: the first of the most
\* frequent moods, 'neutral' for a day without scored moods
dominantMood(moods) ==
  IF moods = <<>> THEN sNeutral
  ELSE moods[CHOOSE i \in 1..Len(moods) :
               \A j \in 1..Len(moods) :
                 \/ occurrences(moods, moods[i]) > occurrences(moods, moods[j])
                 \/ (occurrences(moods, moods[i]) = occurrences(moods, moods[j]) /\ i <= j)]

\* Math.round(avgScore * 10) / 10 in tenths, avgScore = score / count or 3
scoreTenths(moods) ==
  IF moods = <<>> THEN 30
  ELSE (20 * sumScores(moods) + Len(moods)) \div (2 * Len(moods))

\* Math.round((avgScore / 5) * 100)
moodIntensity(moods) ==
  IF moods = <<>> THEN 60
  ELSE (40 * sumScores(moods) + Len(moods)) \div (2 * Len(moods))

\* one element of `heatmap`; the labels day, dayNum, month and color are
\* renderings of `date` and `mood` and are not carried
moodDay(k, moods) ==
  [date |-> k, score |-> scoreTenths(moods), count |-> Len(moods),
   mood |-> dominantMood(moods), intensity |-> moodIntensity(moods)]

\* Object.entries(dayData).map(...)
moodHeatmap(es) ==
  LET keys == heatKeys(es)
  IN [i \in 1..Len(keys) |-> moodDay(keys[i], scoredMoods(entriesOfKey(es, keys[i])))]

\* heatmap.sort((a, b) => b.score - a.score): the array itself is reordered,
\* greatest score first, equal scores in the order they had
RECURSIVE sortScoreDesc(_)
sortScoreDesc(ds) ==
  IF ds = <<>> THEN <<>>
  ELSE LET k == CHOOSE i \in 1..Len(ds) :
                  \A j \in 1..Len(ds) :
                    ds[i].score > ds[j].score \/ (ds[i].score = ds[j].score /\ i <= j)
       IN <<ds[k]>> \o sortScoreDesc(SubSeq(ds, 1, k - 1) \o SubSeq(ds, k + 1, Len(ds)))

\* heatmap.sort((a, b) => a.score - b.score)
RECURSIVE sortScoreAsc(_)
sortScoreAsc(ds) ==
  IF ds = <<>> THEN <<>>
  ELSE LET k == CHOOSE i \in 1..Len(ds) :
                  \A j \in 1..Len(ds) :
                    ds[i].score < ds[j].score \/ (ds[i].score = ds[j].score /\ i <= j)
       IN <<ds[k]>> \o sortScoreAsc(SubSeq(ds, 1, k - 1) \o SubSeq(ds, k + 1, Len(ds)))

firstOrNull(ds) == IF ds = <<>> THEN JNull ELSE ds[1]

\* the object generateMoodHeatmap returns: `daily` is the array `heatmap`
\* itself, which the two sorts of the summary reorder before the object is
\* serialised; the hourly and weekly series are built from the entries alone
moodResult(heatmap) ==
  [type |-> "mood",
   daily |-> sortScoreAsc(sortScoreDesc(heatmap)),
   summary |-> [totalDays |-> Len(heatmap),
                bestDay |-> firstOrNull(sortScoreDesc(heatmap)),
                worstDay |-> firstOrNull(sortScoreAsc(sortScoreDesc(heatmap)))]]

generateMoodHeatmap(es) == moodResult(moodHeatmap(es))

\* dayData[dateKey][entry.sentiment]++ over the entries of one day
sentimentCount(es, s) == Len(SelectSeq(es, LAMBDA e : Truthy(e.sentiment) /\ StrOf(e.sentiment) = s))

\* positive only when strictly ahead of both, then negative only when strictly
\* ahead of neutral, else neutral
dominantSentiment(positive, neutral, negative) ==
  IF positive > negative /\ positive > neutral THEN sPositiveSentiment
  ELSE IF negative > neutral THEN sNegativeSentiment
  ELSE sNeutral

sentimentDay(k, positive, neutral, negative, total) ==
  [date |-> k, positive |-> positive, neutral |-> neutral, negative |-> negative,
   total |-> total,
   dominantSentiment |-> dominantSentiment(positive, neutral, negative),
   positiveRatio |-> roundPercent(positive, total)]

sentimentHeatmap(es) ==
  LET keys == heatKeys(es)
  IN [i \in 1..Len(keys) |->
        sentimentDay(keys[i],
                     sentimentCount(entriesOfKey(es, keys[i]), sPositiveSentiment),
                     sentimentCount(entriesOfKey(es, keys[i]), sNeutral),
                     sentimentCount(entriesOfKey(es, keys[i]), sNegativeSentiment),
                     Len(entriesOfKey(es, keys[i])))]

\* the daily list of generateSentimentHeatmap; the weekly trend is built from
\* the entries alone
generateSentimentHeatmap(es) == [type |-> "sentiment", daily |-> sentimentHeatmap(es)]

\* db.habitEntry.findMany({where: {date: {gte: subDays(new Date(), daysAgo)}},
\* orderBy: {date: 'asc'}})
heatWindow(es, t, daysAgo) ==
  orderByDateAsc(SelectSeq(es, LAMBDA e : e.date >= t - daysAgo * TPD))

\* parseInt(searchParams.get('range') || '30')
rangeDays(range) == IF IsNull(range) THEN DefaultRange ELSE ParseDigits(StrOf(range), 0)

\* the switch on `type`: 'sentiment' or, for 'mood' and anything else but
\* 'activity', the mood view
heatmapData(view, es) ==
  IF view = "sentiment" THEN generateSentimentHeatmap(es) ELSE generateMoodHeatmap(es)

heatmapAnswer(fail, view, es) ==
  IF fail THEN [fn |-> "heatmap", status |-> 500]
  ELSE [fn |-> "heatmap", status |-> 200, data |-> heatmapData(view, es)]

-----------------------------------------------------------------------------
(* The heatmap evaluated on its own *)

sHappy == <<"h", "a", "p", "p", "y">>
sSad == <<"s", "a", "d">>
sMeh == <<"m", "e", "h">>
sOneDay == <<"1">>

\* the day the heatmap is asked for and the instants of the days up to it
HeatToday == DefaultRange + HeatDays
HeatInstants ==
  ((HeatToday - HeatDays + 1) * TPD)..((HeatToday + 1) * TPD - 1) \cup {0}

heatEntry(mood, sentiment, t) ==
  [newEntry(habitBody(JStr(sText), JStr(sRun), JNull, JDate(t)), 0)
     EXCEPT !.mood = mood, !.sentiment = sentiment]

\* entries with a mood of the table, a mood outside it or no mood
MoodEntries ==
  {heatEntry(m, JNull, t) : m \in {JStr(sHappy), JStr(sSad), JStr(sMeh), JNull},
                            t \in HeatInstants}

SentimentEntries ==
  {heatEntry(JNull, s, t) :
     s \in {JStr(sPositiveSentiment), JStr(sNegativeSentiment), JStr(sNeutral), JNull},
     t \in HeatInstants}

\* the rows of the store, in any order
MoodHistories == UNION {[1..n -> MoodEntries] : n \in 0..MaxHeatEntries}
SentimentHistories == UNION {[1..n -> SentimentEntries] : n \in 0..MaxHeatEntries}

HeatRequests ==
  {[fn |-> "heatmap", view |-> "mood", range |-> r, entries |-> h] :
     r \in {JNull, JStr(sOneDay)}, h \in MoodHistories}
  \cup {[fn |-> "heatmap", view |-> "sentiment", range |-> r, entries |-> h] :
          r \in {JNull, JStr(sOneDay)}, h \in SentimentHistories}

InitHeat ==
  /\ AppIdle
  /\ now = (HeatToday + 1) * TPD - 1
  /\ tz \in TzOffsets
  /\ fin \in HeatRequests
  /\ fout = NoCall

\* GET /api/heatmap; a failure of the store read is answered with 500
GETHeatmap(fail) ==
  /\ fin.fn = "heatmap" /\ fout = NoCall
  /\ fout' = heatmapAnswer(fail, fin.view,
                           heatWindow(fin.entries, now, rangeDays(fin.range)))
  /\ UNCHANGED <<fin, appVars>>

NextHeat == \E fail \in BOOLEAN : GETHeatmap(fail)

SpecHeat == InitHeat /\ [][NextHeat]_vars

-----------------------------------------------------------------------------
(* Claims: the heatmap *)

HeatAnswered(view) ==
  fout.fn = "heatmap" /\ fout.status = 200 /\ fout.data.type = view

\* C22: in the sentiment view a day is 'positive' whenever its positive count
\* is at least the negative and the neutral count, and 'negative' whenever
\* its negative count exceeds the positive count and is at least the neutral
\* count
C22_DominantSentimentTies ==
  HeatAnswered("sentiment") =>
    \A i \in 1..Len(fout.data.daily) :
      LET d == fout.data.daily[i] IN
      /\ (d.positive >= d.negative /\ d.positive >= d.neutral)
           => d.dominantSentiment = sPositiveSentiment
      /\ (d.negative > d.positive /\ d.negative >= d.neutral)
           => d.dominantSentiment = sNegativeSentiment

\* the daily list of the mood view before the summary is computed
SpecifiedDaily == moodHeatmap(heatWindow(fin.entries, now, rangeDays(fin.range)))

\* C29: in the mood view the daily list is returned in ascending date order,
\* with the order and content it had before bestDay and worstDay are computed
C29_DailyInDateOrder ==
  HeatAnswered("mood") =>
    /\ \A i, j \in 1..Len(fout.data.daily) :
         i < j => fout.data.daily[i].date < fout.data.daily[j].date
    /\ fout.data.daily = SpecifiedDaily

-----------------------------------------------------------------------------
(* GET /api/habits/stats: groupEntriesByPeriod *)

DefaultMoodScore == 3
MaxTrendEntries == 3

\* moodToScore of groupEntriesByPeriod
moodToScore ==
  << [mood |-> <<"h", "a", "p", "p", "y">>, score |-> 5],
     [mood |-> <<"g", "r", "e", "a", "t">>, score |-> 5],
     [mood |-> <<"a", "m", "a", "z", "i", "n", "g">>, score |-> 5],
     [mood |-> <<"e", "n", "e", "r", "g", "i", "z", "e", "d">>, score |-> 4],
     [mood |-> <<"g", "o", "o", "d">>, score |-> 4],
     [mood |-> <<"r", "e", "l", "a", "x", "e", "d">>, score |-> 3],
     [mood |-> <<"n", "e", "u", "t", "r", "a", "l">>, score |-> 3],
     [mood |-> <<"t", "i", "r", "e", "d">>, score |-> 2],
     [mood |-> <<"s", "t", "r", "e", "s", "s", "e", "d">>, score |-> 2],
     [mood |-> <<"s", "a", "d">>, score |-> 1],
     [mood |-> <<"b", "a", "d">>, score |-> 1] >>

\* moodToScore[entry.mood] || 3
trendScore(mood) ==
  IF \E i \in 1..Len(moodToScore) : moodToScore[i].mood = mood
  THEN moodToScore[CHOOSE i \in 1..Len(moodToScore) : moodToScore[i].mood = mood].score
  ELSE DefaultMoodScore

\* the key of an entry's bucket: the UTC date of the entry, the UTC date of
\* the instant moved back to the Sunday of its local week, or the local month
bucketKey(t, groupBy) ==
  CASE groupBy = "week" -> ISODate(t - GetDay(t) * TPD)
    [] groupBy = "month" -> DayOf(t) \div MonthLen
    [] OTHER -> ISODate(t)

\* grouped[key].count++ ... avgMood = (avgMood * (count - 1) + score) / count
\* over the entries of one bucket in order; avgMood is kept as the exact
\* fraction num / den
RECURSIVE runningAvgMood(_, _, _, _)
runningAvgMood(es, count, num, den) ==
  IF es = <<>> THEN [num |-> num, den |-> den]
  ELSE IF Truthy(Head(es).mood)
       THEN runningAvgMood(Tail(es), count + 1,
                           num * count + trendScore(StrOf(Head(es).mood)) * den,
                           den * (count + 1))
       ELSE runningAvgMood(Tail(es), count + 1, num, den)

RECURSIVE sumQuantity(_)
sumQuantity(es) ==
  IF es = <<>> THEN 0
  ELSE (IF IsNull(Head(es).quantity) THEN 0 ELSE Head(es).quantity.num)
       + sumQuantity(Tail(es))

\* the counts of a Record<string, number>, keys in the order they are created
tally(xs) ==
  LET keys == unique(xs)
  IN [i \in 1..Len(keys) |->
        [key |-> keys[i], count |-> Len(SelectSeq(xs, LAMBDA x : x = keys[i]))]]

presentValues(es, field) ==
  LET kept == SelectSeq(es, LAMBDA e : Truthy(e[field]))
  IN [i \in 1..Len(kept) |-> StrOf(kept[i][field])]

\* one value of `grouped` after the loop
bucket(key, es) ==
  [date |-> key,
   count |-> Len(es),
   totalQuantity |-> sumQuantity(es),
   activities |-> tally(presentValues(es, "activity")),
   avgMood |-> runningAvgMood(es, 0, 0, 1),
   moodCounts |-> tally(presentValues(es, "mood"))]

\* sort((a, b) => a.date.localeCompare(b.date)) over distinct keys
RECURSIVE sortByKey(_)
sortByKey(bs) ==
  IF bs = <<>> THEN <<>>
  ELSE LET k == CHOOSE i \in 1..Len(bs) : \A j \in 1..Len(bs) : bs[i].date <= bs[j].date
       IN <<bs[k]>> \o sortByKey(SubSeq(bs, 1, k - 1) \o SubSeq(bs, k + 1, Len(bs)))

groupEntriesByPeriod(es, groupBy) ==
  LET keys == unique([i \in 1..Len(es) |-> bucketKey(es[i].date, groupBy)])
  IN sortByKey([i \in 1..Len(keys) |->
                  bucket(keys[i],
                         SelectSeq(es, LAMBDA e : bucketKey(e.date, groupBy) = keys[i]))])

-----------------------------------------------------------------------------
(* The trend aggregation evaluated on its own *)

\* a Sunday at the start of a month, the evening before it and the day after
TrendBase == 7 * MonthLen
TrendInstants == {TrendBase * TPD, (TrendBase + 1) * TPD - 1, (TrendBase + 1) * TPD}

trendEntry(mood, quantity, t) ==
  [newEntry(habitBody(JStr(sText), JStr(sRun), quantity, JDate(t)), 0)
     EXCEPT !.mood = mood]

TrendEntries ==
  {trendEntry(m, q, t) :
     m \in {JStr(sHappy), JStr(sSad), JStr(sMeh), JNull},
     q \in {JNull, JNum(2)}, t \in TrendInstants}

TrendHistories == UNION {[1..n -> TrendEntries] : n \in 0..MaxTrendEntries}

InitTrend ==
  /\ AppIdle
  /\ now = (TrendBase + 2) * TPD
  /\ tz \in TzOffsets
  /\ fin \in {[fn |-> "trends", groupBy |-> g, entries |-> h] :
               g \in {"day", "week", "month"}, h \in TrendHistories}
  /\ fout = NoCall

\* trends: groupEntriesByPeriod(entries, groupBy) over the rows read with
\* orderBy: { date: 'asc' }
CallTrends ==
  /\ fin.fn = "trends" /\ fout = NoCall
  /\ fout' = [fn |-> "trends",
               trends |-> groupEntriesByPeriod(orderByDateAsc(fin.entries), fin.groupBy)]
  /\ UNCHANGED <<fin, appVars>>

NextTrend == CallTrends

SpecTrend == InitTrend /\ [][NextTrend]_vars

-----------------------------------------------------------------------------
(* Claims: the trend aggregation *)

\* the entries of a bucket that carry a mood
MoodsOfBucket(key) ==
  {i \in 1..Len(fin.entries) :
     /\ bucketKey(fin.entries[i].date, fin.groupBy) = key
     /\ Truthy(fin.entries[i].mood)}

RECURSIVE SumOfScores(_)
SumOfScores(I) ==
  IF I = {} THEN 0
  ELSE LET i == CHOOSE x \in I : TRUE
       IN trendScore(StrOf(fin.entries[i].mood)) + SumOfScores(I \ {i})

\* C23: for every trend bucket avgMood is the arithmetic mean of the mood
\* scores (lookup value, 3 for a mood outside the table) of the bucket's
\* entries that carry a mood, whatever the order of the entries and however
\* many entries of the bucket have no mood
C23_AvgMoodIsMean ==
  fout.fn = "trends" =>
    \A i \in 1..Len(fout.trends) :
      LET b == fout.trends[i]
          I == MoodsOfBucket(b.date)
      IN I # {} => b.avgMood.num * Cardinality(I) = SumOfScores(I) * b.avgMood.den

-----------------------------------------------------------------------------
(* checkForNewBadges evaluated on its own *)

\* the names checkForNewBadges creates for given statistics, in the order of
\* the catalogue
RECURSIVE grantedFrom(_, _, _)
grantedFrom(from, existing, stats) ==
  IF nextGrant(from, existing, stats) = 0 THEN <<>>
  ELSE <<BADGES[nextGrant(from, existing, stats)].name>>
       \o grantedFrom(nextGrant(from, existing, stats) + 1, existing, stats)

\* the statistic of recalculateStats each tested requirement key is compared with
StatOfKey ==
  [entries |-> "totalEntries", streak |-> "currentStreak",
   goalsCompleted |-> "goalsCompleted", moodEntries |-> "moodEntries",
   morningEntries |-> "morningEntries", eveningEntries |-> "eveningEntries",
   uniqueActivities |-> "uniqueActivities", positiveCount |-> "positiveCount",
   categories |-> "categories"]

\* the greatest number of the catalogue
CatalogueNumbers ==
  UNION {{BADGES[i].requirement[k] : k \in DOMAIN BADGES[i].requirement} :
           i \in 1..Len(BADGES)}

CatalogueTop == CHOOSE n \in CatalogueNumbers : \A m \in CatalogueNumbers : m <= n

\* a statistic at zero, at each of its thresholds of the catalogue and at the
\* greatest number of the catalogue
StatLevels(key) ==
  {0, CatalogueTop} \cup ({Req(BADGES[i], key) : i \in 1..Len(BADGES)})

BadgeStats ==
  [totalEntries : StatLevels("entries"), currentStreak : StatLevels("streak"),
   goalsCompleted : StatLevels("goalsCompleted"), moodEntries : StatLevels("moodEntries"),
   morningEntries : StatLevels("morningEntries"),
   eveningEntries : StatLevels("eveningEntries"),
   uniqueActivities : StatLevels("uniqueActivities"),
   positiveCount : StatLevels("positiveCount"), categories : StatLevels("categories")]

HeldBadges == {<<>>, <<[id |-> 1, name |-> BADGES[1].name, userId |-> 1]>>}

InitBadge ==
  /\ AppIdle
  /\ now = 0
  /\ tz = 0
  /\ fin \in {[fn |-> "badges", stats |-> s, existing |-> ex] :
               s \in BadgeStats, ex \in HeldBadges}
  /\ fout = NoCall

\* newBadges of checkForNewBadges(profile.id, stats)
CallBadges ==
  /\ fin.fn = "badges" /\ fout = NoCall
  /\ fout' = [fn |-> "badges", newBadges |-> grantedFrom(1, fin.existing, fin.stats)]
  /\ UNCHANGED <<fin, appVars>>

NextBadge == CallBadges

SpecBadge == InitBadge /\ [][NextBadge]_vars

-----------------------------------------------------------------------------
(* Claims: the badge catalogue *)

\* every tracked statistic is at or above every number of the catalogue
Saturated == \A k \in DOMAIN StatOfKey : fin.stats[StatOfKey[k]] >= CatalogueTop

\* a statistic of the badge has reached its threshold
Reached(badge) ==
  \/ Saturated
  \/ \E k \in DOMAIN badge.requirement \cap DOMAIN StatOfKey :
       fin.stats[StatOfKey[k]] >= badge.requirement[k]

\* C24: every catalogue badge has a threshold on one of the nine tracked
\* statistics, so a badge not yet held is granted by the request at which its
\* statistic has reached the threshold; no badge is unearnable
C24_EveryBadgeEarnable ==
  fout.fn = "badges" =>
    \A i \in 1..Len(BADGES) :
      (~alreadyHeld(BADGES[i], fin.existing) /\ Reached(BADGES[i]))
        => \E j \in 1..Len(fout.newBadges) : fout.newBadges[j] = BADGES[i].name

\* with every tracked statistic at or above every number of the catalogue
\* three badges are still not granted
NeverGrantedBadges ==
  fout.fn = "badges" =>
    \A j \in 1..Len(fout.newBadges) :
      fout.newBadges[j] \notin {"Insight Seeker", "Streak Saver", "Iron Will"}

-----------------------------------------------------------------------------
(* Entry submissions that overlap *)

\* entries of the goal's activity with a quantity, dated at the submission
RaceBodies ==
  { habitBody(JStr(sText), JStr(sRun), q, JNull) : q \in {JNum(5), JNum(7)} }

RaceGoalBodies ==
  { [title |-> JStr(sText), activity |-> JStr(sRun), targetValue |-> JNum(12),
     period |-> JStr(sDaily)] }

\* a goal is created while no submission is being handled; submissions start
\* at any time and their store calls interleave
NextPostConc ==
  \/ \E body \in RaceGoalBodies : AllQuiet /\ GoalPOST(body)
  \/ \E p \in PostIds, body \in RaceBodies : POSTCreate(p, body, FALSE)
  \/ \E p \in PostIds : UpdFindGoals(p, FALSE)
  \/ \E p \in PostIds : UpdSumEntries(p, FALSE)
  \/ \E p \in PostIds : UpdWriteGoal(p, FALSE)
  \/ \E p \in PostIds : POSTRespond(p)
  \/ \E p \in PostIds : POSTFinish(p)

SpecPostConc == Init /\ [][NextPostConc]_vars

-----------------------------------------------------------------------------
(* Claims: overlapping submissions *)

\* both submissions have completed, neither response delivered yet, and
\* both recomputed the goal
BothRecomputed ==
  /\ \A p \in PostIds : Created(p) /\ loc[p].ran
  /\ goals # <<>>

\* C25: two overlapping entry submissions that match the same active goal
\* can complete with the goal's currentValue below the sum of the matching
\* entries of the window: the value written is the sum of the entries stored
\* when the recomputation that wrote last read them, the recomputation that
\* read last saw every entry, and one that read before the other entry was
\* stored can write last
C25_LostUpdate ==
  BothRecomputed =>
    /\ \A i \in 1..Len(goals) :
         \E k \in 1..Len(entries) :
           goals[i].currentValue = totalQuantity(SubSeq(entries, 1, k))
    /\ \E p \in PostIds : loc[p].total = SpecifiedSum(goals[1], now)

\* both submissions are complete and the goal's progress misses an entry
C25_Witness ==
  /\ BothRecomputed
  /\ goals[1].currentValue < SpecifiedSum(goals[1], now)

-----------------------------------------------------------------------------
(* Claims: the profile row *)

\* C26: at most one UserProfile row ever exists; the fetch-or-create step
\* never creates a second profile, also when several gamification requests
\* start together on an empty store
C26_SingleProfile == Len(profiles) <= 1

-----------------------------------------------------------------------------
(* A gamification request followed at once by another *)

\* the first request has been answered and nothing but the time of day has
\* changed since
FirstAnswered ==
  /\ gpc[1] = "done" /\ gresp[1].status = 200
  /\ gpc[2] = "idle"
  /\ \A p \in PostIds : pc[p] = "idle"

\* the clock moves on within the local day
TickSameDay ==
  /\ DayOf(now + 1) = DayOf(now)
  /\ Tick

\* entries, goals and days change only while no gamification request is
\* open; the second request starts after the first was answered, before any
\* entry, goal or day changes
NextGameTwice ==
  \/ \E p \in SeqIds : PostSteps(p)
  \/ \E body \in GameGoalBodies : NoRequest /\ GoalPOST(body)
  \/ \E id \in 1..MaxGoals, data \in GoalResets : NoRequest /\ GoalPUT(id, data)
  \/ NoRequest /\ Tick
  \/ \E fail \in BOOLEAN : NoRequest /\ GamFindProfile(1, fail)
  \/ FirstAnswered /\ TickSameDay
  \/ \E fail \in BOOLEAN : FirstAnswered /\ GamFindProfile(2, fail)
  \/ \E g \in {1, 2} : GameSteps(g)

SpecGameTwice == InitGame /\ [][NextGameTwice]_vars

-----------------------------------------------------------------------------
(* Claims: repeated gamification requests *)

BothAnswered == \A g \in {1, 2} : gpc[g] = "done" /\ gresp[g].status = 200

\* C27: of two consecutive gamification requests with no entry, goal or
\* calendar-day change between them the second returns the totalPoints,
\* currentStreak, longestStreak and badge list of the first and an empty
\* newBadges list
C27_Idempotent ==
  BothAnswered =>
    /\ gresp[2].profile.totalPoints = gresp[1].profile.totalPoints
    /\ gresp[2].profile.currentStreak = gresp[1].profile.currentStreak
    /\ gresp[2].profile.longestStreak = gresp[1].profile.longestStreak
    /\ gresp[2].badges = gresp[1].badges
    /\ gresp[2].newBadges = <<>>

\* the first request granted a badge and reported points and a streak; the
\* second has been answered too
C27_Witness ==
  /\ BothAnswered
  /\ gresp[1].newBadges # <<>>
  /\ gresp[1].profile.currentStreak > 0
  /\ gresp[1].profile.totalPoints > 0

\* C28: for every total the engine produces, negative totals included, the
\* next-level progress is an integer from 0 to 100, and it is 100 only when
\* no level threshold lies above the point total
C28_ProgressBounded ==
  \A g \in GameIds :
    Answered(g) =>
      /\ gresp[g].nextLevel.progress \in 0..100
      /\ gresp[g].nextLevel.progress = 100 =>
           \A i \in 1..Len(levelThresholds) :
             levelThresholds[i] <= gresp[g].profile.totalPoints

=============================================================================
